---- MODULE Spec2Model ----
(***************************************************************************)
(* Client-side simulation core of the racing / flying / walking game:      *)
(* the per-frame loop of PlayerController (src/src/game/PlayerCar.tsx),    *)
(* the mouse tracker and camera orbit of the scene                         *)
(* (src/src/game/RemoteCar.tsx) and the track constants                    *)
(* (src/unnamed/part_001).                                                 *)
(*                                                                         *)
(* Numbers are fixed-point integers:                                       *)
(*   lengths, speeds (per second), boost   1/100 unit                      *)
(*   time                                  milliseconds                    *)
(*   angles, angular velocities (per s)    milliradians                    *)
(*   curve parameter t                     sample index (t * 1000)         *)
(* A product with a real factor is rounded toward zero (Scale).            *)
(*                                                                         *)
(* The track spline itself is not evaluated: what getNearestTrackInfo      *)
(* returns for a planar position is carried with the entity standing       *)
(* there (field ti) and is a frame input whenever the position changes.    *)
(* Bullet positions are likewise represented by the two tests the code     *)
(* makes on them (below y = -1, within the hit radius of a target).        *)
(***************************************************************************)
EXTENDS Integers, Sequences, FiniteSets, TLC

\* ------------------------------------------------------------- constants
\* track constants of the trackPath version that exports getTrackElevation,
\* which PlayerController imports (src/unnamed/part_001);
\* src/src/game/trackPath.ts is an earlier version (18 / 3 / 4 / 500)
TRACK_WIDTH == 1600
TOTAL_LAPS == 2
NUM_CHECKPOINTS == 8
TRACK_SAMPLES == 1000

WALK == [speed |-> 800, runSpeed |-> 1600]

DRIVE == [maxSpeed |-> 9000, acceleration |-> 4000, braking |-> 5500,
          reverseMax |-> 1800, friction |-> 985, turnSpeed |-> 2200,
          grassFriction |-> 978, grassMaxSpeed |-> 6500]

FLY == [maxSpeed |-> 12000, acceleration |-> 2800, brake |-> 2200,
        drag |-> 992, climbRate |-> 2500, gravity |-> 1000,
        minFlySpeed |-> 2000, maxAltitude |-> 25000, groundY |-> 150]

MAX_BULLETS == 30
BULLET_LIFETIME == 2500
FIRE_COOLDOWN == 90
MUZZLE_TIME == 40

CAR_COLLISION_RADIUS == 120
PLANE_COLLISION_RADIUS == 200
COLLISION_BOUNCE == 6

RAMP == [x |-> 13000, z |-> 20000, width |-> 1400, length |-> 2000,
         height |-> 350]

MAX_STEP_UP == 60
TARGET_RESPAWN_TIME == 3000
NUM_TARGETS == 10
INTERACT_RADIUS_SQ == 600 * 600
MAX_DT == 50
SYNC_PERIOD == 66

PI == 3142
TWO_PI == 6283
HALF_PI == 1571
NoTime == -1
ORBIT_SENS == 3

NoVehicle == 0
NoId == "none"

\* ------------------------------------------------------------ arithmetic
Abs(a) == IF a < 0 THEN -a ELSE a
Min(a, b) == IF a < b THEN a ELSE b
Max(a, b) == IF a > b THEN a ELSE b
Sign(a) == IF a > 0 THEN 1 ELSE IF a < 0 THEN -1 ELSE 0

\* a * num / den in real arithmetic, rounded toward zero
Scale(a, num, den) ==
    IF a * num >= 0 THEN (a * num) \div den ELSE -((-(a * num)) \div den)

\* Math.sqrt on a non-negative integer, rounded down
RECURSIVE SqrtIn(_, _, _)
SqrtIn(n, lo, hi) ==
    IF lo >= hi THEN lo
    ELSE LET mid == (lo + hi + 1) \div 2
         IN  IF mid * mid <= n THEN SqrtIn(n, mid, hi) ELSE SqrtIn(n, lo, mid - 1)
Sqrt(n) == SqrtIn(n, 0, 46340)

\* Math.sin / Math.cos of an angle in mrad, result in 1/1000
\* (Bhaskara's rational approximation on centiradians; signs and zeros exact)
SinHalf(c) ==
    (16000 * c * (314 - c)) \div (5 * 314 * 314 - 4 * c * (314 - c))
SinK(a) ==
    LET c == (a % TWO_PI) \div 10
    IN  IF c < 314 THEN Min(1000, SinHalf(c))
        ELSE -Min(1000, SinHalf(Min(c - 314, 314)))
CosK(a) == SinK(a + HALF_PI)

\* Math.atan2(y, x) in mrad, in (-PI, PI]
AtanUnit(z) == Scale(z, 785 + Scale(273, 1000 - Abs(z), 1000), 1000)
Atan2K(y, x) ==
    IF x = 0 /\ y = 0 THEN 0
    ELSE IF Abs(y) <= Abs(x)
         THEN LET a == AtanUnit(Scale(y, 1000, x))
              IN  IF x > 0 THEN a ELSE IF y >= 0 THEN a + PI ELSE a - PI
         ELSE LET a == AtanUnit(Scale(x, 1000, y))
              IN  IF y > 0 THEN HALF_PI - a ELSE -HALF_PI - a

\* ----------------------------------------------------------------- state
VARIABLES
    phase,            \* App: 'menu' | 'playing' | 'finished'
    mounted,          \* PlayerController is rendered in the scene
    clock,            \* performance.now() at the last frame, ms
    nInputs,          \* input events delivered so far
    mode,             \* modeRef
    charPos,          \* character position and the track info there
    charRot,
    isMoving,
    vehicles,         \* roster, index 1..7
    activeIdx,        \* index into vehicles, NoVehicle for null
    nearby,           \* nearbyRef, NoId for null
    race,
    keys,
    interactPressed,
    boostMeter,
    carVelY,
    carOnGround,
    flyYawVel,
    flyPitchVel,
    planeBank,
    bullets,
    lastFireTime,
    fireLeft,
    muzzleTimer,
    targets,
    syncTimer,
    hud,              \* last snapshot handed to onStateUpdate / stateRef
    raceResult,       \* App: raceResult, NoResult for null
    socket,           \* App: socketRef, "none" | "connecting" | "connected"
    wire,             \* socket.io messages in flight: up[id] from client id
                      \* to the server, down[id] from the server to it
    players,          \* server: the players Map, in insertion order
    peer,             \* a second browser running the same App
    raw,              \* a session that speaks the socket protocol directly
    mp,               \* App: mpStatus, and what the socket's manager counts
    remotePlayers,
    accum,            \* MouseInput accumulator
    frameMouse,       \* per-frame snapshot of the accumulator
    pointerLocked,
    orbitYaw,
    simTime,          \* accumulated clamped frame time of the session, ms
    hitAt,            \* per target, simTime at the end of the frame it was hit
    frameLog,         \* what the last frame did (observation only)
    leaderboard,      \* server: entries of the leaderboard file
    reply,            \* server: the last HTTP response
    requests          \* server: HTTP requests handled so far

vars == <<phase, mounted, clock, nInputs, mode, charPos, charRot, isMoving,
          vehicles, activeIdx, nearby, race, keys, interactPressed,
          boostMeter, carVelY, carOnGround, flyYawVel, flyPitchVel,
          planeBank, bullets, lastFireTime, fireLeft, muzzleTimer, targets,
          syncTimer, hud, remotePlayers, accum, frameMouse, pointerLocked,
          orbitYaw, simTime, hitAt, frameLog, raceResult, leaderboard,
          reply, requests, socket, wire, players, peer, raw, mp>>

serverVars == <<leaderboard, reply, requests>>

relayVars == <<socket, wire, players, peer, raw, mp>>

controllerVars == <<mode, charPos, charRot, isMoving, vehicles, activeIdx,
          nearby, race, boostMeter, carVelY, carOnGround, flyYawVel,
          flyPitchVel, planeBank, bullets, lastFireTime, fireLeft,
          muzzleTimer, targets, syncTimer, simTime, hitAt, frameLog>>

clientVars == <<phase, mounted, clock, nInputs, controllerVars, keys,
                interactPressed, hud, remotePlayers, accum, frameMouse,
                pointerLocked, orbitYaw, raceResult, relayVars>>

\* ------------------------------------------------------------ track data
\* getCheckpointTs: cps[i] = (i + 1) / (NUM_CHECKPOINTS + 1); a sample index
\* k stands for t = k / TRACK_SAMPLES, so "t < cp" is k * (N + 1) < 1000 * i
getCheckpointTs == [i \in 1..NUM_CHECKPOINTS |-> i]
TBelowCp(k, cp) == k * (NUM_CHECKPOINTS + 1) < TRACK_SAMPLES * cp
NoCheckpoints == [i \in 1..NUM_CHECKPOINTS |-> FALSE]

\* getNearestTrackInfo results: t sample index, planar distance to that
\* sample, elevation of the sample
TrackInfo(t, dist, y) == [t |-> t, dist |-> dist, y |-> y]
isOnTrack(ti) == 2 * ti.dist < TRACK_WIDTH
getTrackElevation(ti) == IF ti.dist < TRACK_WIDTH THEN ti.y ELSE 0

\* getStartPosition(): curve point at t = 0 raised by 0.5, heading of the
\* tangent there
StartPosition == [x |-> 0, y |-> 50, z |-> 20000, rotation |-> 1649]

\* getGroundHeight: track elevation or ramp height, whichever is higher.
\* RAMP.rotation is PI / 2, so rx = -lz and rz = lx.
getGroundHeight(x, z, ti) ==
    LET trackY == getTrackElevation(ti)
        lx == x - RAMP.x
        lz == z - RAMP.z
        rx == -lz
        rz == lx
        halfW == RAMP.width \div 2
        halfL == RAMP.length \div 2
        rampY == IF rx >= -halfW /\ rx <= halfW /\ rz >= -halfL /\ rz <= halfL
                 THEN Scale(rz + halfL, RAMP.height, RAMP.length)
                 ELSE 0
    IN  Max(trackY, rampY)

\* ------------------------------------------------------- initial records
Vehicle(id, type, dx, y, dz, ti) ==
    [id |-> id, type |-> type,
     x |-> StartPosition.x + dx, y |-> y, z |-> StartPosition.z + dz,
     rot |-> StartPosition.rotation, speed |-> 0, pitch |-> 0, ti |-> ti]

makeVehicles ==
    LET sy == StartPosition.y - 50
    IN << Vehicle("car-red", "car", 1200, sy, 1000, TrackInfo(15, 782, -6)),
          Vehicle("car-blue", "car", 1200, sy, 1600, TrackInfo(16, 1360, -6)),
          Vehicle("car-green", "car", 1200, sy, 2200, TrackInfo(18, 1941, -7)),
          Vehicle("car-orange", "car", 1800, sy, 1000, TrackInfo(20, 631, -7)),
          Vehicle("plane-blue", "airplane", 2500, FLY.groundY, 0,
                  TrackInfo(25, 483, -6)),
          Vehicle("plane-red", "airplane", 2500, FLY.groundY, 1000,
                  TrackInfo(26, 513, -6)),
          Vehicle("plane-gold", "airplane", 2500, FLY.groundY, 2000,
                  TrackInfo(27, 1507, -5)) >>

makeBulletPool == [i \in 1..MAX_BULLETS |-> [active |-> FALSE, age |-> 0]]

makeTargets == [i \in 1..NUM_TARGETS |-> [alive |-> TRUE, respawnTimer |-> 0]]

InitRace == [active |-> FALSE, lap |-> 0, lapStart |-> 0, raceStart |-> 0,
             bestLap |-> NoTime, checkpoints |-> << >>, started |-> FALSE,
             lastT |-> 0, finished |-> FALSE]

InitKeys == [forward |-> FALSE, backward |-> FALSE, left |-> FALSE,
             right |-> FALSE, space |-> FALSE, shift |-> FALSE]

InitCharPos == [x |-> StartPosition.x, y |-> 0, z |-> StartPosition.z + 1200,
                ti |-> TrackInfo(995, 1170, -2)]

NoFrame == [tick |-> "none", fault |-> "none", fire |-> "none",
            fireMode |-> "none", laps |-> 0, lapTime |-> 0, finish |-> FALSE,
            boosting |-> FALSE, wall |-> FALSE, bounce |-> FALSE,
            hits |-> {}, dt |-> 0, sync |-> FALSE, calls |-> << >>,
            overlapped |-> {}, contacts |-> {}]

\* no HTTP request answered yet
NoReply == [method |-> "none", request |-> [type |-> "undefined"],
            status |-> 0, body |-> << >>]

\* socket ids of the two browsers: this one and the peer
Me == "p1"
Peer == "p2"
Raw == "p3"
SocketIds == {Me, Peer, Raw}

\* no socket.io message in flight
NoTraffic == [up |-> [id \in SocketIds |-> << >>],
              down |-> [id \in SocketIds |-> << >>]]

\* the peer before its player presses start: App's initial state
InitPeer == [phase |-> "menu", socket |-> "none", mode |-> "walking",
             vehicleId |-> NoId, remotePlayers |-> << >>, sent |-> 0]

\* the raw session before it connects
InitRaw == [socket |-> "none", sent |-> 0]

\* useState('offline') of mpStatus; attempts counts the connection attempts
\* of the socket since io() or since it was last connected, drops the
\* connections the relay has dropped
InitMp == [status |-> "offline", attempts |-> 0, drops |-> 0]

\* raceResult of the App before a race is finished (null)
NoResult == [bestLap |-> NoTime, totalTime |-> NoTime]

\* handleRaceFinish(bestLapTime): the result the finish screen shows; the
\* total is read from stateRef.current, the last synced state
handleRaceFinish(stateRef, bestLapTime) ==
    [bestLap |-> bestLapTime, totalTime |-> stateRef.totalTime]

\* createInitialState() of the App
createInitialState ==
    [mode |-> "walking",
     position |-> <<StartPosition.x, 0, StartPosition.z + 1200>>,
     speed |-> 0, rotation |-> StartPosition.rotation,
     altitude |-> 0, lap |-> 0, boost |-> 10000, vehicleId |-> NoId,
     nearbyVehicle |-> NoId, pitch |-> 0, bank |-> 0, totalTime |-> 0,
     bestLapTime |-> NoTime]

\* the refs of a freshly constructed PlayerController
FreshRefs ==
    [mode |-> "walking", charPos |-> InitCharPos,
     charRot |-> StartPosition.rotation, isMoving |-> FALSE,
     vehicles |-> makeVehicles, activeIdx |-> NoVehicle, nearby |-> NoId,
     race |-> InitRace, boostMeter |-> 10000, carVelY |-> 0,
     carOnGround |-> TRUE, flyYawVel |-> 0, flyPitchVel |-> 0,
     planeBank |-> 0, bullets |-> makeBulletPool, lastFireTime |-> 0,
     fireLeft |-> TRUE, muzzleTimer |-> 0, targets |-> makeTargets,
     syncTimer |-> 0, simTime |-> 0,
     hitAt |-> [i \in 1..NUM_TARGETS |-> NoTime], log |-> NoFrame]

Init ==
    /\ phase = "menu"
    /\ mounted = FALSE
    /\ clock = 0
    /\ nInputs = 0
    /\ mode = FreshRefs.mode
    /\ charPos = FreshRefs.charPos
    /\ charRot = FreshRefs.charRot
    /\ isMoving = FreshRefs.isMoving
    /\ vehicles = FreshRefs.vehicles
    /\ activeIdx = FreshRefs.activeIdx
    /\ nearby = FreshRefs.nearby
    /\ race = FreshRefs.race
    /\ keys = InitKeys
    /\ interactPressed = FALSE
    /\ boostMeter = FreshRefs.boostMeter
    /\ carVelY = FreshRefs.carVelY
    /\ carOnGround = FreshRefs.carOnGround
    /\ flyYawVel = FreshRefs.flyYawVel
    /\ flyPitchVel = FreshRefs.flyPitchVel
    /\ planeBank = FreshRefs.planeBank
    /\ bullets = FreshRefs.bullets
    /\ lastFireTime = FreshRefs.lastFireTime
    /\ fireLeft = FreshRefs.fireLeft
    /\ muzzleTimer = FreshRefs.muzzleTimer
    /\ targets = FreshRefs.targets
    /\ syncTimer = FreshRefs.syncTimer
    /\ simTime = FreshRefs.simTime
    /\ hitAt = FreshRefs.hitAt
    /\ frameLog = FreshRefs.log
    /\ hud = createInitialState
    /\ raceResult = NoResult
    /\ remotePlayers = << >>
    /\ accum = [dx |-> 0, dy |-> 0, fireDown |-> FALSE]
    /\ frameMouse = [dx |-> 0, dy |-> 0, fireDown |-> FALSE]
    /\ pointerLocked = FALSE
    /\ orbitYaw = 0
    /\ leaderboard = << >>
    /\ reply = NoReply
    /\ requests = 0
    /\ socket = "none"
    /\ wire = NoTraffic
    /\ players = << >>
    /\ peer = InitPeer
    /\ raw = InitRaw
    /\ mp = InitMp

\* -------------------------------------------------------- input handlers
\* The environment e of a specification schedules what the browser
\* delivers: each event or frame input carries the set `at` of clock values
\* at which it may be delivered, and at most e.budget events are delivered
\* in a run.
InputAllowed(e, ev) == nInputs < e.budget /\ clock \in ev.at

keyOf(code) ==
    CASE code \in {"KeyW", "ArrowUp"} -> "forward"
      [] code \in {"KeyS", "ArrowDown"} -> "backward"
      [] code \in {"KeyA", "ArrowLeft"} -> "left"
      [] code \in {"KeyD", "ArrowRight"} -> "right"
      [] code = "Space" -> "space"
      [] code \in {"ShiftLeft", "ShiftRight"} -> "shift"
      [] OTHER -> "ignored"

\* variant of the keydown listener that also handles key-repeat events
downRepeating(code, repeat) ==
    IF code # "KeyE" /\ keyOf(code) = "ignored"
    THEN UNCHANGED <<keys, interactPressed>>
    ELSE IF code = "KeyE"
         THEN interactPressed' = TRUE /\ UNCHANGED keys
         ELSE /\ keys' = [keys EXCEPT ![keyOf(code)] = TRUE]
              /\ UNCHANGED interactPressed

\* keydown listener of PlayerController
down(code, repeat) ==
    IF repeat \/ (code # "KeyE" /\ keyOf(code) = "ignored")
    THEN UNCHANGED <<keys, interactPressed>>
    ELSE IF code = "KeyE"
         THEN interactPressed' = TRUE /\ UNCHANGED keys
         ELSE /\ keys' = [keys EXCEPT ![keyOf(code)] = TRUE]
              /\ UNCHANGED interactPressed

\* keyup listener of PlayerController
up(code) ==
    IF keyOf(code) = "ignored"
    THEN UNCHANGED keys
    ELSE keys' = [keys EXCEPT ![keyOf(code)] = FALSE]

KeyDown(e) ==
    /\ mounted
    /\ \E ev \in e.downs : InputAllowed(e, ev) /\ down(ev.code, ev.repeat)
    /\ nInputs' = nInputs + 1
    /\ UNCHANGED <<serverVars, relayVars, phase, raceResult, mounted, clock, controllerVars, hud, remotePlayers,
                   accum, frameMouse, pointerLocked, orbitYaw>>

KeyUp(e) ==
    /\ mounted
    /\ \E ev \in e.ups : InputAllowed(e, ev) /\ up(ev.code)
    /\ nInputs' = nInputs + 1
    /\ UNCHANGED <<serverVars, relayVars, phase, raceResult, mounted, clock, controllerVars, interactPressed,
                   hud, remotePlayers, accum, frameMouse, pointerLocked,
                   orbitYaw>>

\* MouseInput listeners
onMove(dx, dy) ==
    IF pointerLocked
    THEN accum' = [accum EXCEPT !.dx = @ + dx, !.dy = @ + dy]
    ELSE UNCHANGED accum

onMouseDown(button) ==
    IF pointerLocked /\ button = 0
    THEN accum' = [accum EXCEPT !.fireDown = TRUE]
    ELSE UNCHANGED accum

onMouseUp(button) ==
    IF button = 0
    THEN accum' = [accum EXCEPT !.fireDown = FALSE]
    ELSE UNCHANGED accum

MouseMove(e) ==
    /\ \E ev \in e.moves : InputAllowed(e, ev) /\ onMove(ev.dx, ev.dy)
    /\ nInputs' = nInputs + 1
    /\ UNCHANGED <<serverVars, relayVars, phase, raceResult, mounted, clock, controllerVars, keys,
                   interactPressed, hud, remotePlayers, frameMouse,
                   pointerLocked, orbitYaw>>

MouseDown(e) ==
    /\ \E ev \in e.presses : InputAllowed(e, ev) /\ onMouseDown(ev.button)
    /\ nInputs' = nInputs + 1
    /\ UNCHANGED <<serverVars, relayVars, phase, raceResult, mounted, clock, controllerVars, keys,
                   interactPressed, hud, remotePlayers, frameMouse,
                   pointerLocked, orbitYaw>>

MouseUp(e) ==
    /\ \E ev \in e.releases : InputAllowed(e, ev) /\ onMouseUp(ev.button)
    /\ nInputs' = nInputs + 1
    /\ UNCHANGED <<serverVars, relayVars, phase, raceResult, mounted, clock, controllerVars, keys,
                   interactPressed, hud, remotePlayers, frameMouse,
                   pointerLocked, orbitYaw>>

\* phaseRef of MouseInput: the phase of the last render.  setPhase takes
\* effect at the next render, so while the scene still shows the controller
\* the rendered phase is 'playing'
phaseRef == IF mounted THEN "playing" ELSE phase

\* canvas click: pointer lock is requested while playing and not locked;
\* the browser grants it and the pointerlockchange listener records it
onClick ==
    IF phaseRef = "playing" /\ ~pointerLocked
    THEN pointerLocked' = TRUE
    ELSE UNCHANGED pointerLocked

Click(e) ==
    /\ \E ev \in e.clicks : InputAllowed(e, ev)
    /\ onClick
    /\ nInputs' = nInputs + 1
    /\ UNCHANGED <<serverVars, relayVars, phase, raceResult, mounted, clock, controllerVars, keys,
                   interactPressed, hud, remotePlayers, accum, frameMouse,
                   orbitYaw>>

\* pointerlockchange listener when the lock is lost (Esc)
onLock ==
    /\ pointerLocked' = FALSE
    /\ accum' = [accum EXCEPT !.fireDown = FALSE]

LockLost(e) ==
    /\ \E ev \in e.unlocks : InputAllowed(e, ev)
    /\ pointerLocked
    /\ onLock
    /\ nInputs' = nInputs + 1
    /\ UNCHANGED <<serverVars, relayVars, phase, raceResult, mounted, clock, controllerVars, keys,
                   interactPressed, hud, remotePlayers, frameMouse, orbitYaw>>

\* socket 'players' listener of the App: the relay's list of the other
\* players replaces remotePlayers
onPlayers(list) == remotePlayers' = list

Players(e) ==
    /\ phase = "playing"
    /\ \E ev \in e.remotes : InputAllowed(e, ev) /\ onPlayers(ev.players)
    /\ nInputs' = nInputs + 1
    /\ UNCHANGED <<serverVars, relayVars, phase, raceResult, mounted, clock, controllerVars, keys,
                   interactPressed, hud, accum, frameMouse, pointerLocked,
                   orbitYaw>>

\* ------------------------------------------------------ frame: the steps
\* The refs of the controller as one record, threaded through the steps of
\* one frame.  log records what the frame did.
Refs ==
    [mode |-> mode, charPos |-> charPos, charRot |-> charRot,
     isMoving |-> isMoving, vehicles |-> vehicles, activeIdx |-> activeIdx,
     nearby |-> nearby, race |-> race, boostMeter |-> boostMeter,
     carVelY |-> carVelY, carOnGround |-> carOnGround,
     flyYawVel |-> flyYawVel, flyPitchVel |-> flyPitchVel,
     planeBank |-> planeBank, bullets |-> bullets,
     lastFireTime |-> lastFireTime, fireLeft |-> fireLeft,
     muzzleTimer |-> muzzleTimer, targets |-> targets,
     syncTimer |-> syncTimer, orbitYaw |-> orbitYaw, phase |-> phase,
     raceResult |-> raceResult,
     hud |-> hud, simTime |-> simTime, hitAt |-> hitAt, log |-> NoFrame]

\* a property read on an undefined vehicle throws: the rest of the frame
\* callback is skipped
Fault(c, site) == [c EXCEPT !.log.fault = site]
Ok(c) == c.log.fault = "none"

\* while (diff > PI) diff -= 2 PI; while (diff < -PI) diff += 2 PI
RECURSIVE WrapDiff(_)
WrapDiff(d) ==
    IF d > PI THEN WrapDiff(d - TWO_PI)
    ELSE IF d < -PI THEN WrapDiff(d + TWO_PI)
    ELSE d

\* if (yaw > PI) yaw -= 2 PI; if (yaw < -PI) yaw += 2 PI
WrapOnce(a) ==
    LET b == IF a > PI THEN a - TWO_PI ELSE a
    IN  IF b < -PI THEN b + TWO_PI ELSE b

\* variant in which no vehicle is claimed
NoneTaken == {}

\* set of vehicle ids claimed by remote players
takenVehicleIds == {remotePlayers[i].vehicleId : i \in 1..Len(remotePlayers)}
                       \ {NoId}

\* variant of the proximity loop that keeps the last vehicle in range
RECURSIVE ProximityScanLast(_, _, _, _, _)
ProximityScanLast(c, taken, i, bestDist, best) ==
    IF i > Len(c.vehicles) THEN best
    ELSE LET v == c.vehicles[i]
             vdx == c.charPos.x - v.x
             vdz == c.charPos.z - v.z
             far == Abs(vdx) >= 600 \/ Abs(vdz) >= 600
             d2 == IF far THEN INTERACT_RADIUS_SQ ELSE vdx * vdx + vdz * vdz
         IN  IF v.id \in taken
             THEN ProximityScanLast(c, taken, i + 1, bestDist, best)
             ELSE IF d2 < bestDist
             THEN ProximityScanLast(c, taken, i + 1, bestDist, v.id)
             ELSE ProximityScanLast(c, taken, i + 1, bestDist, best)

\* proximity loop of tickWalking over the roster from index i on
RECURSIVE ProximityScan(_, _, _, _, _)
ProximityScan(c, taken, i, bestDist, best) ==
    IF i > Len(c.vehicles) THEN best
    ELSE LET v == c.vehicles[i]
             vdx == c.charPos.x - v.x
             vdz == c.charPos.z - v.z
             far == Abs(vdx) >= 600 \/ Abs(vdz) >= 600
             d2 == IF far THEN INTERACT_RADIUS_SQ ELSE vdx * vdx + vdz * vdz
         IN  IF v.id \in taken THEN ProximityScan(c, taken, i + 1, bestDist, best)
             ELSE IF d2 < bestDist THEN ProximityScan(c, taken, i + 1, d2, v.id)
             ELSE ProximityScan(c, taken, i + 1, bestDist, best)

findIndex(vs, id) ==
    IF \E i \in 1..Len(vs) : vs[i].id = id
    THEN CHOOSE i \in 1..Len(vs) : vs[i].id = id /\ \A j \in 1..(i - 1) : vs[j].id # id
    ELSE NoVehicle

\* variant that takes every vehicle for a car
ModeOfCar(type) == "driving"

\* mode entered with a vehicle of the given type
ModeOf(type) == IF type = "car" THEN "driving" ELSE "flying"

\* "Enter vehicle" block of tickWalking; near is nearbyRef after the scan
EnterVehicle(c, justE, now, near, idx) ==
    IF justE /\ near # NoId /\ idx # NoVehicle
    THEN [c EXCEPT
            !.activeIdx = idx,
            !.mode = ModeOf(c.vehicles[idx].type),
            !.nearby = NoId,
            !.race = IF c.vehicles[idx].type = "car"
                     THEN [active |-> TRUE, lap |-> 0, lapStart |-> now,
                           raceStart |-> now, bestLap |-> NoTime,
                           checkpoints |-> NoCheckpoints, started |-> FALSE,
                           lastT |-> 0, finished |-> FALSE]
                     ELSE @]
    ELSE [c EXCEPT !.nearby = near]

\* proximity check of tickWalking
Proximity(c, justE, now, near) ==
    EnterVehicle(c, justE, now, near, findIndex(c.vehicles, near))

\* ramp / wall block of tickWalking; (x1, z1) is the position after the
\* move, walkRampH the ground height there
WalkGround(c, moving, rot1, x1, z1, ti1, walkRampH) ==
    [c EXCEPT
       !.charPos = IF walkRampH - c.charPos.y > MAX_STEP_UP
                   THEN [c.charPos EXCEPT
                           !.y = getGroundHeight(c.charPos.x, c.charPos.z,
                                                 c.charPos.ti)]
                   ELSE [x |-> x1, y |-> walkRampH, z |-> z1, ti |-> ti1],
       !.charRot = rot1,
       !.orbitYaw = IF moving THEN WrapOnce(@ - (rot1 - c.charRot)) ELSE @,
       !.isMoving = moving,
       !.log.tick = "walking"]

WalkPlace(c, moving, rot1, x1, z1, ti1) ==
    WalkGround(c, moving, rot1, x1, z1, ti1, getGroundHeight(x1, z1, ti1))

\* the character moved by (stepX, stepZ) and turned to rot1
WalkStep(c, tiNew, moving, stepX, stepZ, rot1) ==
    WalkPlace(c, moving, rot1, c.charPos.x + stepX, c.charPos.z + stepZ,
              IF stepX = 0 /\ stepZ = 0 THEN c.charPos.ti ELSE tiNew)

\* normalise-and-apply-speed block of tickWalking
WalkMove(c, dt, baseSpeed, tiNew, moveX, moveZ, moveLen) ==
    IF moveLen > 1
    THEN WalkStep(c, tiNew, TRUE,
                  Scale(Scale(moveX, baseSpeed, moveLen), dt, 1000),
                  Scale(Scale(moveZ, baseSpeed, moveLen), dt, 1000),
                  c.charRot
                  + Scale(WrapDiff(Atan2K(moveX, moveZ) - c.charRot),
                          Min(1000, 12 * dt), 1000))
    ELSE WalkStep(c, tiNew, FALSE, 0, 0, c.charRot)

\* movement vector of tickWalking along one axis: f is the sine (cosine) of
\* the camera yaw, l and r that of the yaw turned by +PI/2 and -PI/2
WalkAxis(k, f, l, r) ==
    (IF k.forward THEN f ELSE 0) - (IF k.backward THEN Scale(f, 4, 10) ELSE 0)
    + (IF k.left THEN l ELSE 0) + (IF k.right THEN r ELSE 0)

WalkVector(c, dt, k, tiNew, moveX, moveZ) ==
    WalkMove(c, dt, IF k.shift THEN WALK.runSpeed ELSE WALK.speed, tiNew,
             moveX, moveZ, Sqrt(moveX * moveX + moveZ * moveZ))

WalkCamera(c, dt, k, tiNew, camYaw) ==
    WalkVector(c, dt, k, tiNew,
               WalkAxis(k, SinK(camYaw), SinK(camYaw + HALF_PI),
                        SinK(camYaw - HALF_PI)),
               WalkAxis(k, CosK(camYaw), CosK(camYaw + HALF_PI),
                        CosK(camYaw - HALF_PI)))

WalkScan(c, justE, now, taken) ==
    Proximity(c, justE, now,
              ProximityScan(c, taken, 1, INTERACT_RADIUS_SQ, NoId))

tickWalking(c, dt, k, justE, now, taken, tiNew) ==
    WalkScan(WalkCamera(c, dt, k, tiNew, c.charRot + c.orbitYaw),
             justE, now, taken)

exitVehicle(c, tiExit) ==
    IF c.activeIdx = NoVehicle THEN Fault(c, "exitVehicle")
    ELSE LET v == c.vehicles[c.activeIdx]
             exitX == v.x + Scale(-CosK(v.rot), 400, 1000)
             exitZ == v.z + Scale(SinK(v.rot), 400, 1000)
         IN  [c EXCEPT
                !.charPos = [x |-> exitX,
                             y |-> getGroundHeight(exitX, exitZ, tiExit),
                             z |-> exitZ, ti |-> tiExit],
                !.charRot = v.rot,
                !.vehicles[c.activeIdx].speed = 0,
                !.vehicles[c.activeIdx].y = getGroundHeight(v.x, v.z, v.ti),
                !.activeIdx = NoVehicle,
                !.race.active = FALSE,
                !.mode = "walking",
                !.planeBank = 0,
                !.carVelY = 0,
                !.carOnGround = TRUE]

\* currT - prevT in double arithmetic is below 0.5 when the samples are less
\* than 500 apart, and, for exactly 500 apart, when the subtraction rounds
\* down (prevT in the listed ranges)
HalfRoundsDown == (63..85) \cup (188..203) \cup (313..343) \cup (438..468)
ForwardDelta(prevT, currT) ==
    LET d == currT - prevT
    IN  d > 0 /\ (d < 500 \/ (d = 500 /\ prevT \in HalfRoundsDown))

\* prevT < cpTs[i] && currT >= cpTs[i]
CheckpointCrossed(prevT, currT, i) ==
    TBelowCp(prevT, getCheckpointTs[i]) /\ ~TBelowCp(currT, getCheckpointTs[i])

\* variant of the checkpoint loop without the forward-delta guard
MarkAnyDelta(cps, started, prevT, currT) ==
    IF started
    THEN [i \in DOMAIN cps |-> cps[i] \/ CheckpointCrossed(prevT, currT, i)]
    ELSE cps

\* checkpoint loop of the lap tracking block
MarkCheckpoints(cps, started, prevT, currT) ==
    IF started /\ ForwardDelta(prevT, currT)
    THEN [i \in DOMAIN cps |-> cps[i] \/ CheckpointCrossed(prevT, currT, i)]
    ELSE cps

\* variant of the lap gate without the checkpoint test
LapGateWrapOnly(prevT, currT, cps) ==
    prevT > 850 /\ currT < 150

\* prevT > 0.85 && currT < 0.15 && r.checkpoints.every(Boolean)
LapGate(prevT, currT, cps) ==
    prevT > 850 /\ currT < 150 /\ \A i \in DOMAIN cps : cps[i]

\* variant that keeps the time of the latest lap
BestLapLatest(bestLap, lapTime) == lapTime

\* if (r.bestLap === null || lapTime < r.bestLap) r.bestLap = lapTime
BestLap(bestLap, lapTime) ==
    IF bestLap = NoTime \/ lapTime < bestLap THEN lapTime ELSE bestLap

\* variant that finishes the race one lap late
RaceDoneLate(lap) == lap > TOTAL_LAPS

\* if (r.lap >= TOTAL_LAPS)
RaceDone(lap) == lap >= TOTAL_LAPS

\* lap completion block: the race record and the frame log when the gate
\* is open (lapDone) or shut
CompleteLap(c, started, currT, cps, now, lapDone) ==
    IF lapDone
    THEN [c EXCEPT
            !.race.started = started,
            !.race.lap = @ + 1,
            !.race.bestLap = BestLap(@, now - c.race.lapStart),
            !.race.finished = IF RaceDone(c.race.lap + 1) THEN TRUE ELSE @,
            !.race.lapStart = now,
            !.race.checkpoints = NoCheckpoints,
            !.race.lastT = currT,
            !.log.laps = @ + 1,
            !.log.lapTime = now - c.race.lapStart,
            !.log.finish = RaceDone(c.race.lap + 1),
            !.log.calls = IF RaceDone(c.race.lap + 1)
                          THEN <<"onLapComplete", "onRaceFinish">>
                          ELSE <<"onLapComplete">>,
            \* onRaceFinish(r.bestLap) -> handleRaceFinish
            !.raceResult = IF RaceDone(c.race.lap + 1)
                           THEN handleRaceFinish(c.hud,
                                  BestLap(c.race.bestLap,
                                          now - c.race.lapStart))
                           ELSE @,
            !.phase = IF RaceDone(c.race.lap + 1) THEN "finished" ELSE @]
    ELSE [c EXCEPT !.race.started = started, !.race.checkpoints = cps,
                   !.race.lastT = currT]

LapCheck(c, started, prevT, currT, cps, now) ==
    CompleteLap(c, started, currT, cps, now,
                started /\ LapGate(prevT, currT, cps))

LapMarks(c, started, prevT, currT, now) ==
    LapCheck(c, started, prevT, currT,
             MarkCheckpoints(c.race.checkpoints, started, prevT, currT), now)

\* variant of the lap tracking block that starts the session at once
LapTrackingUnguarded(c, nearest, now) ==
    IF ~(10 * nearest.dist < 12 * TRACK_WIDTH) THEN c
    ELSE LapMarks(c, TRUE, c.race.lastT, nearest.t, now)

\* variant of the lap tracking block without the distance gate
LapTrackingUngated(c, nearest, now) ==
    LapMarks(c, c.race.started \/ nearest.t > 50, c.race.lastT, nearest.t, now)

\* lap tracking block of tickDriving; nearest is the track info of pos3
LapTracking(c, nearest, now) ==
    IF ~(10 * nearest.dist < 12 * TRACK_WIDTH) THEN c
    ELSE LapMarks(c, c.race.started \/ nearest.t > 50, c.race.lastT,
                  nearest.t, now)

\* variant of the boost block without the clamps
BoostStepUnclamped(meter, boosting, dt) ==
    IF boosting THEN meter - Scale(3000, dt, 1000)
    ELSE meter + Scale(1200, dt, 1000)

\* boost block of tickDriving: the meter after a frame of dt
BoostStep(meter, boosting, dt) ==
    IF boosting THEN Max(0, meter - Scale(3000, dt, 1000))
    ELSE Min(10000, meter + Scale(1200, dt, 1000))

\* acceleration block of tickDriving
Throttle(speed, k, accel, dt) ==
    LET s1 == IF k.forward THEN speed + Scale(accel, dt, 1000) ELSE speed
    IN  IF k.backward
        THEN IF s1 > 0 THEN s1 - Scale(DRIVE.braking, dt, 1000)
             ELSE s1 - Scale(DRIVE.acceleration \div 2, dt, 1000)
        ELSE s1

ClampSpeed(s, maxSpd) == Max(-DRIVE.reverseMax, Min(maxSpd, s))

DeadZone(s, k) == IF Abs(s) < 15 /\ ~k.forward /\ ~k.backward THEN 0 ELSE s

\* v.speed after the speed block of tickDriving
DriveSpeed(speed, onRoad, boosting, k, dt) ==
    DeadZone(
      ClampSpeed(
        Scale(Throttle(speed, k,
                       IF boosting THEN Scale(DRIVE.acceleration, 18, 10)
                       ELSE DRIVE.acceleration, dt),
              IF onRoad THEN DRIVE.friction ELSE DRIVE.grassFriction, 1000),
        IF boosting
        THEN Scale(IF onRoad THEN DRIVE.maxSpeed ELSE DRIVE.grassMaxSpeed,
                   15, 10)
        ELSE (IF onRoad THEN DRIVE.maxSpeed ELSE DRIVE.grassMaxSpeed)), k)

\* v.rot after the steering block of tickDriving
Steer(rot, speed, k, dt) ==
    LET turn == (IF k.left THEN 1 ELSE 0) - (IF k.right THEN 1 ELSE 0)
        sf == Min(Scale(Abs(speed), 1000, 800), 1000)
        sgn == IF speed = 0 THEN 1 ELSE Sign(speed)
    IN  rot + Scale(Scale(turn * DRIVE.turnSpeed * sgn, sf, 1000), dt, 1000)

\* vertical physics and lap tracking of tickDriving; (x1, z1) is the
\* position after the move, groundLevel the ground height there
DriveVertical(c, dt, k, now, s5, rot1, x1, z1, ti1, groundLevel) ==
    LET v == c.vehicles[c.activeIdx]
        wall == c.carOnGround /\ groundLevel - v.y > MAX_STEP_UP
        track == c.carOnGround /\ ~wall /\ groundLevel >= v.y - 30
        jump == k.space /\ c.carOnGround /\ (wall \/ track)
        velAir == c.carVelY - Scale(4000, dt, 1000)
        yAir == v.y + Scale(velAir, dt, 1000)
        land == ~c.carOnGround /\ yAir <= groundLevel
    IN  LapTracking(
          [c EXCEPT
             !.vehicles[c.activeIdx] =
                [v EXCEPT
                   !.speed = IF wall THEN Scale(s5, -3, 10) ELSE s5,
                   !.rot = rot1,
                   !.x = IF wall THEN v.x ELSE x1,
                   !.z = IF wall THEN v.z ELSE z1,
                   !.ti = IF wall THEN v.ti ELSE ti1,
                   !.y = IF c.carOnGround
                         THEN (IF track THEN groundLevel ELSE v.y)
                         ELSE (IF land THEN groundLevel ELSE yAir)],
             !.carVelY = IF c.carOnGround
                         THEN (IF track
                               THEN Scale(groundLevel - v.y, 1000, Max(dt, 1))
                               ELSE @)
                              + (IF jump THEN 1400 ELSE 0)
                         ELSE (IF land THEN 0 ELSE velAir),
             !.carOnGround = IF @ THEN (wall \/ track) /\ ~jump ELSE land,
             !.log.wall = wall],
          v.ti, now)

DrivePlace(c, dt, k, now, s5, rot1, x1, z1, ti1) ==
    DriveVertical(c, dt, k, now, s5, rot1, x1, z1, ti1,
                  getGroundHeight(x1, z1, ti1))

\* move block of tickDriving: the car moves by (mx, mz)
DriveStep(c, dt, k, now, tiNew, s5, rot1, mx, mz) ==
    DrivePlace(c, dt, k, now, s5, rot1,
               c.vehicles[c.activeIdx].x + mx, c.vehicles[c.activeIdx].z + mz,
               IF mx = 0 /\ mz = 0 THEN c.vehicles[c.activeIdx].ti ELSE tiNew)

DriveMove(c, dt, k, now, tiNew, s5, rot1) ==
    DriveStep(c, dt, k, now, tiNew, s5, rot1,
              Scale(Scale(SinK(rot1), s5, 1000), dt, 1000),
              Scale(Scale(CosK(rot1), s5, 1000), dt, 1000))

DriveSteer(c, dt, k, now, tiNew, s5) ==
    DriveMove(c, dt, k, now, tiNew, s5,
              Steer(c.vehicles[c.activeIdx].rot, s5, k, dt))

\* tickDriving past its early returns; boosting as computed by the boost block
DrivePhysics(c, dt, k, now, tiNew, boosting) ==
    IF c.activeIdx = NoVehicle
    THEN Fault([c EXCEPT !.boostMeter = BoostStep(@, boosting, dt),
                         !.log.tick = "driving", !.log.boosting = boosting],
               "tickDriving")
    ELSE DriveSteer(
           [c EXCEPT !.boostMeter = BoostStep(@, boosting, dt),
                     !.log.tick = "driving", !.log.boosting = boosting],
           dt, k, now, tiNew,
           DriveSpeed(c.vehicles[c.activeIdx].speed,
                      isOnTrack(c.vehicles[c.activeIdx].ti), boosting, k, dt))

\* variant of tickDriving that drives on after the race
tickDrivingOn(c, dt, k, justE, now, tiNew, tiExit) ==
    IF justE THEN exitVehicle([c EXCEPT !.log.tick = "exit"], tiExit)
    ELSE DrivePhysics([c EXCEPT !.log.tick = IF c.race.finished
                                             THEN "finished" ELSE @],
                      dt, k, now, tiNew,
                      k.shift /\ c.boostMeter > 0 /\ k.forward)

\* variant of tickDriving that tests the finished session before the exit
tickDrivingFinishedFirst(c, dt, k, justE, now, tiNew, tiExit) ==
    IF c.race.finished THEN [c EXCEPT !.log.tick = "finished"]
    ELSE IF justE THEN exitVehicle([c EXCEPT !.log.tick = "exit"], tiExit)
    ELSE DrivePhysics(c, dt, k, now, tiNew,
                      k.shift /\ c.boostMeter > 0 /\ k.forward)

tickDriving(c, dt, k, justE, now, tiNew, tiExit) ==
    IF justE THEN exitVehicle([c EXCEPT !.log.tick = "exit"], tiExit)
    ELSE IF c.race.finished THEN [c EXCEPT !.log.tick = "finished"]
    ELSE DrivePhysics(c, dt, k, now, tiNew,
                      k.shift /\ c.boostMeter > 0 /\ k.forward)

\* v.speed after the throttle block of tickFlying
FlySpeed(speed, k, dt) ==
    LET s1 == IF k.forward THEN speed + Scale(FLY.acceleration, dt, 1000)
              ELSE speed
        s2 == IF k.backward THEN s1 - Scale(FLY.brake, dt, 1000) ELSE s1
    IN  Max(0, Min(FLY.maxSpeed, Scale(s2, FLY.drag, 1000)))

\* v.pitch after the pitch block of tickFlying (clamp, then auto-level)
FlyPitch(pitch, pitchVel, dt) ==
    Scale(Max(-700, Min(700, pitch + Scale(pitchVel, dt, 1000))),
          5000 - dt, 5000)

\* altitude block of tickFlying: v.pos.y after the frame
FlyAltitude(y, s4, p3, k, dt) ==
    LET altDelta == (IF 2 * s4 >= FLY.minFlySpeed
                     THEN Scale(Scale(s4, SinK(-p3), 1000), 1, 2) ELSE 0)
                    + (IF k.space THEN FLY.climbRate ELSE 0)
                    - (IF k.shift THEN FLY.climbRate ELSE 0)
                    - (IF y > FLY.groundY + 50 /\ s4 < FLY.minFlySpeed
                       THEN FLY.gravity ELSE 0)
    IN  Max(FLY.groundY, Min(FLY.maxAltitude, y + Scale(altDelta, dt, 1000)))

\* movement block of tickFlying: the plane moves by (mx, mz)
FlyStep(c, tiNew, s4, yawVel, pitchVel, rot1, p3, y1, mx, mz) ==
    [c EXCEPT
       !.vehicles[c.activeIdx] =
          [@ EXCEPT !.speed = s4, !.rot = rot1, !.pitch = p3, !.y = y1,
                    !.x = @ + mx, !.z = @ + mz,
                    !.ti = IF mx = 0 /\ mz = 0 THEN @ ELSE tiNew],
       !.flyYawVel = yawVel, !.flyPitchVel = pitchVel,
       !.planeBank = 2 * yawVel, !.log.tick = "flying"]

FlyMove(c, dt, k, tiNew, s4, yawVel, pitchVel, rot1, p3) ==
    FlyStep(c, tiNew, s4, yawVel, pitchVel, rot1, p3,
            FlyAltitude(c.vehicles[c.activeIdx].y, s4, p3, k, dt),
            Scale(Scale(SinK(rot1), s4, 1000), dt, 1000),
            Scale(Scale(CosK(rot1), s4, 1000), dt, 1000))

FlyTurn(c, dt, k, tiNew, s4, yawVel, pitchVel) ==
    FlyMove(c, dt, k, tiNew, s4, yawVel, pitchVel,
            c.vehicles[c.activeIdx].rot + Scale(yawVel, dt, 1000),
            FlyPitch(c.vehicles[c.activeIdx].pitch, pitchVel, dt))

\* variant of tickFlying that lets the player leave at any altitude
tickFlyingExitAnywhere(c, dt, k, justE, mouse, tiNew, tiExit) ==
    IF c.activeIdx = NoVehicle THEN Fault(c, "tickFlying")
    ELSE IF justE
    THEN exitVehicle(
           [c EXCEPT !.vehicles[c.activeIdx].speed = 0,
                     !.vehicles[c.activeIdx].y = FLY.groundY,
                     !.vehicles[c.activeIdx].pitch = 0,
                     !.flyYawVel = 0, !.flyPitchVel = 0,
                     !.log.tick = "exit"], tiExit)
    ELSE FlyTurn(c, dt, k, tiNew,
                 FlySpeed(c.vehicles[c.activeIdx].speed, k, dt),
                 Scale(c.flyYawVel - 2 * mouse.dx, 1000 - 5 * dt, 1000),
                 Scale(c.flyPitchVel + Scale(mouse.dy, 3, 2),
                       1000 - 4 * dt, 1000))

tickFlying(c, dt, k, justE, mouse, tiNew, tiExit) ==
    IF c.activeIdx = NoVehicle THEN Fault(c, "tickFlying")
    ELSE IF justE /\ c.vehicles[c.activeIdx].y <= FLY.groundY + 100
    THEN exitVehicle(
           [c EXCEPT !.vehicles[c.activeIdx].speed = 0,
                     !.vehicles[c.activeIdx].y = FLY.groundY,
                     !.vehicles[c.activeIdx].pitch = 0,
                     !.flyYawVel = 0, !.flyPitchVel = 0,
                     !.log.tick = "exit"], tiExit)
    ELSE FlyTurn(c, dt, k, tiNew,
                 FlySpeed(c.vehicles[c.activeIdx].speed, k, dt),
                 Scale(c.flyYawVel - 2 * mouse.dx, 1000 - 5 * dt, 1000),
                 Scale(c.flyPitchVel + Scale(mouse.dy, 3, 2),
                       1000 - 4 * dt, 1000))

\* variant of the pool search that recycles the first slot of a full pool
FreeSlotRecycle(pool) ==
    IF \E i \in 1..Len(pool) : ~pool[i].active
    THEN CHOOSE i \in 1..Len(pool) :
            ~pool[i].active /\ \A j \in 1..(i - 1) : pool[j].active
    ELSE 1

\* pool.find((p) => !p.active): first inactive slot, 0 when there is none
FreeSlot(pool) ==
    IF \E i \in 1..Len(pool) : ~pool[i].active
    THEN CHOOSE i \in 1..Len(pool) :
            ~pool[i].active /\ \A j \in 1..(i - 1) : pool[j].active
    ELSE 0

\* variant of fireBullet that does not read the active vehicle
SpawnBulletBlind(c, b) ==
    IF b = 0 THEN [c EXCEPT !.log.fire = "dropped"]
    ELSE [c EXCEPT !.bullets[b] = [active |-> TRUE, age |-> 0],
                   !.fireLeft = ~@,
                   !.muzzleTimer = MUZZLE_TIME,
                   !.log.fire = "spawned"]

\* fireBullet with b the slot found in the pool
SpawnBullet(c, b) ==
    IF b = 0 THEN [c EXCEPT !.log.fire = "dropped"]
    ELSE IF c.activeIdx = NoVehicle
         THEN Fault([c EXCEPT !.log.fire = "fault"], "fireBullet")
         ELSE [c EXCEPT !.bullets[b] = [active |-> TRUE, age |-> 0],
                        !.fireLeft = ~@,
                        !.muzzleTimer = MUZZLE_TIME,
                        !.log.fire = "spawned"]

fireBullet(c) == SpawnBullet(c, FreeSlot(c.bullets))

\* weapon block of the frame callback; frameMode is the mode read before
\* the tick
Weapon(c, frameMode, mouse, now) ==
    IF frameMode = "flying" /\ mouse.fireDown
       /\ now - c.lastFireTime >= FIRE_COOLDOWN
    THEN fireBullet([c EXCEPT !.lastFireTime = now,
                              !.log.fireMode = c.mode])
    ELSE c

\* variant of the inner loop that does not skip dead targets
FirstHitDeadToo(ts, nearSet) ==
    IF nearSet # {}
    THEN CHOOSE t \in nearSet : \A u \in nearSet : t <= u
    ELSE 0

\* inner loop of tickBullets: first alive target within the hit radius of
\* the bullet, 0 when there is none
FirstHit(ts, nearSet) ==
    IF \E t \in nearSet : ts[t].alive
    THEN CHOOSE t \in nearSet :
            ts[t].alive /\ \A u \in nearSet : ts[u].alive => t <= u
    ELSE 0

\* variant of the loop body that lets a bullet fly on past its lifetime
BulletStepNoTimeout(c, i, age, expired, hit) ==
    IF hit # 0
    THEN [c EXCEPT !.bullets[i] = [active |-> FALSE, age |-> age],
                   !.targets[hit] = [alive |-> FALSE,
                                     respawnTimer |-> TARGET_RESPAWN_TIME],
                   !.hitAt[hit] = c.simTime,
                   !.log.hits = @ \cup {<<i, hit>>}]
    ELSE [c EXCEPT !.bullets[i].age = age]

\* body of the tickBullets loop for the active bullet in slot i; hit is the
\* target it reaches, 0 for none
BulletStep(c, i, age, expired, hit) ==
    IF expired
    THEN [c EXCEPT !.bullets[i] = [active |-> FALSE, age |-> age]]
    ELSE IF hit # 0
    THEN [c EXCEPT !.bullets[i] = [active |-> FALSE, age |-> age],
                   !.targets[hit] = [alive |-> FALSE,
                                     respawnTimer |-> TARGET_RESPAWN_TIME],
                   !.hitAt[hit] = c.simTime,
                   !.log.hits = @ \cup {<<i, hit>>}]
    ELSE [c EXCEPT !.bullets[i].age = age]

\* tickBullets from slot i on.  low: slots whose bullet is below y = -1;
\* near[i]: targets within the hit radius of bullet i after its move.
RECURSIVE BulletLoop(_, _, _, _, _)
BulletLoop(c, dt, low, near, i) ==
    IF i > Len(c.bullets) THEN c
    ELSE IF ~c.bullets[i].active THEN BulletLoop(c, dt, low, near, i + 1)
    ELSE BulletLoop(
           BulletStep(c, i, c.bullets[i].age + dt,
                      c.bullets[i].age + dt > BULLET_LIFETIME \/ i \in low,
                      FirstHit(c.targets, near[i])),
           dt, low, near, i + 1)

tickBullets(c, dt, low, near) == BulletLoop(c, dt, low, near, 1)

tickMuzzleFlash(c, dt) ==
    IF c.muzzleTimer > 0 THEN [c EXCEPT !.muzzleTimer = @ - dt] ELSE c

\* t.respawnTimer -= dt; if (t.respawnTimer <= 0) t.alive = true.  The timer
\* is a double: sixty steps of 0.05 down from 3 leave 2.3e-15, which is not
\* <= 0, so a timer that full-length frames bring to zero is still running.
tickTargets(c, dt) ==
    [c EXCEPT !.targets =
        [i \in DOMAIN @ |->
            IF @[i].alive THEN @[i]
            ELSE [alive |-> \/ @[i].respawnTimer - dt < 0
                            \/ @[i].respawnTimer - dt = 0 /\ dt # MAX_DT,
                  respawnTimer |-> @[i].respawnTimer - dt]]]

\* resolveCollision once the two circles overlap: n = (nx, nz) is the unit
\* vector from the other to me (in 1/1000), dot the heading along it
\* variant of the push-out that bounces a vehicle whose velocity points at
\* the obstacle
BounceInto(me, overlap, nx, nz, pushOther, dot) ==
    [me |-> [me EXCEPT
               !.x = @ + Scale(Scale(nx, overlap, 1000), 1,
                               IF pushOther THEN 2 ELSE 1),
               !.z = @ + Scale(Scale(nz, overlap, 1000), 1,
                               IF pushOther THEN 2 ELSE 1),
               !.speed = IF @ * dot < 0 THEN Scale(@, -COLLISION_BOUNCE, 10)
                         ELSE @],
     px |-> IF pushOther THEN -Scale(Scale(nx, overlap, 1000), 1, 2) ELSE 0,
     pz |-> IF pushOther THEN -Scale(Scale(nz, overlap, 1000), 1, 2) ELSE 0,
     hit |-> TRUE, bounce |-> me.speed * dot < 0]

Bounce(me, overlap, nx, nz, pushOther, dot) ==
    [me |-> [me EXCEPT
               !.x = @ + Scale(Scale(nx, overlap, 1000), 1,
                               IF pushOther THEN 2 ELSE 1),
               !.z = @ + Scale(Scale(nz, overlap, 1000), 1,
                               IF pushOther THEN 2 ELSE 1),
               !.speed = IF dot > 0 THEN Scale(@, -COLLISION_BOUNCE, 10)
                         ELSE @],
     px |-> IF pushOther THEN -Scale(Scale(nx, overlap, 1000), 1, 2) ELSE 0,
     pz |-> IF pushOther THEN -Scale(Scale(nz, overlap, 1000), 1, 2) ELSE 0,
     hit |-> TRUE, bounce |-> dot > 0]

PushOut(me, overlap, nx, nz, pushOther) ==
    Bounce(me, overlap, nx, nz, pushOther,
           Scale(SinK(me.rot), nx, 1000) + Scale(CosK(me.rot), nz, 1000))

Overlap(me, minDist, dx, dz, pushOther, dist) ==
    IF dist < minDist /\ dist > 1
    THEN PushOut(me, minDist - dist, Scale(dx, 1000, dist),
                 Scale(dz, 1000, dist), pushOther)
    ELSE [me |-> me, px |-> 0, pz |-> 0, hit |-> FALSE, bounce |-> FALSE]

Distance(me, minDist, dx, dz, pushOther) ==
    Overlap(me, minDist, dx, dz, pushOther,
            IF Abs(dx) < minDist /\ Abs(dz) < minDist
            THEN Sqrt(dx * dx + dz * dz) ELSE minDist)

\* resolveCollision of the active vehicle me against the circle at (ox, oz):
\* the corrected me, the push applied to the other and whether they overlapped
resolveCollision(me, myRadius, ox, oz, otherRadius, pushOther) ==
    Distance(me, myRadius + otherRadius, me.x - ox, me.z - oz, pushOther)

Radius(type) ==
    IF type = "car" THEN CAR_COLLISION_RADIUS ELSE PLANE_COLLISION_RADIUS

\* one resolved overlap as the frame log keeps it: the active vehicle me
\* when resolveCollision was called, the obstacle's position and the speed
\* resolveCollision left
Contact(me, ox, oz, after) ==
    [mx |-> me.x, mz |-> me.z, rot |-> me.rot, before |-> me.speed,
     ox |-> ox, oz |-> oz, after |-> after]

\* the refs after the collision result r against local vehicle i
LocalHit(c, tiHit, i, r) ==
    IF ~r.hit THEN c
    ELSE [c EXCEPT
            !.log.contacts = @ \cup {Contact(c.vehicles[c.activeIdx],
                                             c.vehicles[i].x, c.vehicles[i].z,
                                             r.me.speed)},
            !.vehicles[c.activeIdx] = [r.me EXCEPT !.ti = tiHit],
            !.vehicles[i] = [@ EXCEPT !.x = @ + r.px, !.z = @ + r.pz,
                                      !.ti = tiHit],
            !.log.bounce = @ \/ r.bounce]

\* loop of tickVehicleCollisions over the local roster from index i on
RECURSIVE LocalCollisions(_, _, _)
LocalCollisions(c, tiHit, i) ==
    IF i > Len(c.vehicles) THEN c
    ELSE IF i = c.activeIdx THEN LocalCollisions(c, tiHit, i + 1)
    ELSE LocalCollisions(
           LocalHit(c, tiHit, i,
                    resolveCollision(c.vehicles[c.activeIdx],
                                     Radius(c.vehicles[c.activeIdx].type),
                                     c.vehicles[i].x, c.vehicles[i].z,
                                     Radius(c.vehicles[i].type), TRUE)),
           tiHit, i + 1)

RemoteRadius(rpMode) ==
    IF rpMode = "flying" THEN PLANE_COLLISION_RADIUS
    ELSE IF rpMode = "driving" THEN CAR_COLLISION_RADIUS
    ELSE 100

RemoteHit(c, tiHit, ox, oz, r) ==
    IF ~r.hit THEN c
    ELSE [c EXCEPT !.vehicles[c.activeIdx] = [r.me EXCEPT !.ti = tiHit],
                   !.log.contacts = @ \cup {Contact(c.vehicles[c.activeIdx],
                                                    ox, oz, r.me.speed)},
                   !.log.bounce = @ \/ r.bounce]

\* loop of tickVehicleCollisions over the remote players from index i on
RECURSIVE RemoteCollisions(_, _, _, _)
RemoteCollisions(c, rps, tiHit, i) ==
    IF i > Len(rps) THEN c
    ELSE RemoteCollisions(
           RemoteHit(c, tiHit, rps[i].position[1], rps[i].position[3],
                     resolveCollision(c.vehicles[c.activeIdx],
                                      Radius(c.vehicles[c.activeIdx].type),
                                      rps[i].position[1], rps[i].position[3],
                                      RemoteRadius(rps[i].mode), FALSE)),
           rps, tiHit, i + 1)

\* planar distance of two vehicles, as resolveCollision computes it when
\* it is below lim
PlanarDistance(a, b, lim) ==
    IF Abs(a.x - b.x) < lim /\ Abs(a.z - b.z) < lim
    THEN Sqrt((a.x - b.x) * (a.x - b.x) + (a.z - b.z) * (a.z - b.z))
    ELSE lim

\* the local vehicles whose circle the circle of vehicle a of vs overlaps
Overlapping(vs, a) ==
    {i \in DOMAIN vs \ {a} :
       PlanarDistance(vs[a], vs[i], Radius(vs[a].type) + Radius(vs[i].type))
         < Radius(vs[a].type) + Radius(vs[i].type)}

tickVehicleCollisions(c, rps, tiHit) ==
    IF c.mode = "walking" \/ c.activeIdx = NoVehicle THEN c
    ELSE RemoteCollisions(
           LocalCollisions(
             [c EXCEPT !.log.overlapped = Overlapping(c.vehicles, c.activeIdx)],
             tiHit, 1),
           rps, tiHit, 1)

syncToReact(c, k, now) ==
    IF c.mode # "walking" /\ c.activeIdx = NoVehicle
    THEN Fault(c, "syncToReact")
    ELSE
    LET r == c.race
        walking == c.mode = "walking"
        v == c.vehicles[IF walking THEN 1 ELSE c.activeIdx]
        state ==
          [mode |-> c.mode,
           position |-> IF walking
                        THEN <<c.charPos.x, c.charPos.y, c.charPos.z>>
                        ELSE <<v.x, v.y, v.z>>,
           speed |-> IF walking
                     THEN (IF c.isMoving
                           THEN (IF k.shift THEN WALK.runSpeed ELSE WALK.speed)
                           ELSE 0)
                     ELSE v.speed,
           rotation |-> IF walking THEN c.charRot ELSE v.rot,
           altitude |-> IF walking THEN 0 ELSE v.y,
           lap |-> IF r.active THEN r.lap ELSE 0,
           boost |-> c.boostMeter,
           vehicleId |-> IF c.activeIdx # NoVehicle
                         THEN c.vehicles[c.activeIdx].id ELSE NoId,
           nearbyVehicle |-> c.nearby,
           pitch |-> IF c.activeIdx # NoVehicle
                     THEN c.vehicles[c.activeIdx].pitch ELSE 0,
           bank |-> c.planeBank,
           totalTime |-> IF r.active THEN now - r.raceStart ELSE 0,
           bestLapTime |-> r.bestLap]
    IN  [c EXCEPT !.hud = state, !.log.sync = TRUE]

\* CameraController frame callback, as far as it writes orbitYawRef; s is
\* stateRef.current, delta the unclamped frame time
CameraOrbit(yaw, s, mouse, delta) ==
    IF s.mode = "flying" THEN Scale(yaw, 1000 - 3 * delta, 1000)
    ELSE WrapOnce(IF Abs(mouse.dx) < 1
                  THEN (IF s.mode = "driving"
                        THEN Scale(yaw - ORBIT_SENS * mouse.dx,
                                   2000 - 5 * delta, 2000)
                        ELSE Scale(yaw - ORBIT_SENS * mouse.dx,
                                   1000 - delta, 1000))
                  ELSE yaw - ORBIT_SENS * mouse.dx)

\* assignment of the controller's refs from a record
SetRefs(c) ==
    /\ mode' = c.mode
    /\ charPos' = c.charPos
    /\ charRot' = c.charRot
    /\ isMoving' = c.isMoving
    /\ vehicles' = c.vehicles
    /\ activeIdx' = c.activeIdx
    /\ nearby' = c.nearby
    /\ race' = c.race
    /\ boostMeter' = c.boostMeter
    /\ carVelY' = c.carVelY
    /\ carOnGround' = c.carOnGround
    /\ flyYawVel' = c.flyYawVel
    /\ flyPitchVel' = c.flyPitchVel
    /\ planeBank' = c.planeBank
    /\ bullets' = c.bullets
    /\ lastFireTime' = c.lastFireTime
    /\ fireLeft' = c.fireLeft
    /\ muzzleTimer' = c.muzzleTimer
    /\ targets' = c.targets
    /\ syncTimer' = c.syncTimer
    /\ simTime' = c.simTime
    /\ hitAt' = c.hitAt
    /\ frameLog' = c.log

\* the mode's tick of the frame callback
Tick(c, frameMode, dt, k, justE, now, mouse, taken, inp) ==
    IF frameMode = "walking"
    THEN tickWalking(c, dt, k, justE, now, taken, inp.tiNew)
    ELSE IF frameMode = "driving"
    THEN tickDriving(c, dt, k, justE, now, inp.tiNew, inp.tiExit)
    ELSE tickFlying(c, dt, k, justE, mouse, inp.tiNew, inp.tiExit)

WeaponStep(c, frameMode, mouse, now) ==
    IF Ok(c) THEN Weapon(c, frameMode, mouse, now) ELSE c

\* tickBullets, tickMuzzleFlash, tickTargets, tickVehicleCollisions
WorldStep(c, dt, rps, inp) ==
    IF Ok(c)
    THEN tickVehicleCollisions(
           tickTargets(tickMuzzleFlash(tickBullets(c, dt, inp.low, inp.near),
                                       dt), dt),
           rps, inp.tiHit)
    ELSE c

\* periodic sync block of the frame callback
\* variant of the periodic sync that keeps the accumulated time
SyncNoReset(c, dt, k, now) ==
    IF ~Ok(c) THEN c
    ELSE IF c.syncTimer + dt > SYNC_PERIOD
    THEN syncToReact([c EXCEPT !.syncTimer = @ + dt], k, now)
    ELSE [c EXCEPT !.syncTimer = @ + dt]

Sync(c, dt, k, now) ==
    IF ~Ok(c) THEN c
    ELSE IF c.syncTimer + dt > SYNC_PERIOD
    THEN syncToReact([c EXCEPT !.syncTimer = 0], k, now)
    ELSE [c EXCEPT !.syncTimer = @ + dt]

\* the refs after the frame callback of PlayerController
Callback(c, frameMode, dt, k, justE, now, mouse, taken, rps, inp) ==
    Sync(WorldStep(WeaponStep(Tick(c, frameMode, dt, k, justE, now, mouse,
                                   taken, inp),
                              frameMode, mouse, now),
                   dt, rps, inp),
         dt, k, now)

\* the 'update' message handleStateUpdate emits for a snapshot
Update(state) ==
    [type |-> "update", position |-> state.position,
     rotation |-> state.rotation, speed |-> state.speed, mode |-> state.mode,
     vehicleId |-> state.vehicleId, pitch |-> state.pitch,
     bank |-> state.bank]

\* handleStateUpdate, as far as it uses the socket: the traffic after it
handleStateUpdate(state) ==
    IF socket = "connected"
    THEN [wire EXCEPT !.up[Me] = Append(@, Update(state))]
    ELSE wire

\* what a rendered frame leaves behind: c the refs after the controller's
\* callback; the camera's orbit update runs after it
Rendered(c, mouse, delta) ==
    /\ SetRefs(c)
    /\ interactPressed' = FALSE
    /\ frameMouse' = mouse
    /\ accum' = [mouse EXCEPT !.dx = 0, !.dy = 0]
    /\ orbitYaw' = IF Ok(c) THEN CameraOrbit(c.orbitYaw, c.hud, mouse, delta)
                   ELSE c.orbitYaw
    /\ hud' = c.hud
    /\ wire' = IF c.log.sync THEN handleStateUpdate(c.hud) ELSE wire
    /\ phase' = c.phase
    /\ raceResult' = c.raceResult
    /\ clock' = clock + delta

\* One rendered frame: MouseInput snapshot (priority -100), the frame
\* callback of PlayerController, then the camera's orbit update.
\* inp: delta  time since the previous frame, ms
\*      tiNew  track info at the position the moving entity reaches
\*      tiHit  track info at the positions collisions push vehicles to
\*      tiExit track info beside the vehicle, where the character gets out
\*      low    bullet slots that are below y = -1
\*      near   for each bullet slot, the targets within its hit radius
useFrame(inp) ==
    Rendered(Callback([Refs EXCEPT !.log.dt = Min(inp.delta, MAX_DT),
                                   !.simTime = @ + Min(inp.delta, MAX_DT)],
                      mode, Min(inp.delta, MAX_DT), keys, interactPressed,
                      clock + inp.delta, accum, takenVehicleIds,
                      remotePlayers, inp),
             accum, inp.delta)

Frame(e) ==
    /\ mounted
    /\ \E inp \in e.frames :
          /\ clock \in inp.at
          /\ clock + inp.delta <= e.maxClock
          /\ useFrame(inp)
    /\ UNCHANGED <<serverVars, raw, mp, socket, players, peer, mounted, nInputs, keys,
                   remotePlayers, pointerLocked>>

\* handleStart: the menu's start button; the scene renders PlayerController
Start ==
    /\ phase = "menu"
    /\ ~mounted
    /\ phase' = "playing"
    /\ mounted' = TRUE
    /\ hud' = createInitialState
    /\ raceResult' = NoResult
    /\ socket' = "connecting"
    /\ mp' = [mp EXCEPT !.status = "connecting", !.attempts = 1]
    /\ SetRefs(FreshRefs)
    /\ keys' = InitKeys
    /\ interactPressed' = FALSE
    /\ UNCHANGED <<serverVars, raw, wire, players, peer, clock, nInputs, remotePlayers, accum, frameMouse,
                   pointerLocked, orbitYaw>>

\* variant of the re-render whose effect leaves the pointer lock alone
UnmountLocked(e) ==
    /\ phase # "playing"
    /\ mounted
    /\ clock \in e.unmountAt
    /\ mounted' = FALSE
    /\ UNCHANGED <<serverVars, relayVars, phase, raceResult, clock, nInputs,
                   controllerVars, keys, interactPressed, hud, remotePlayers,
                   frameMouse, orbitYaw, pointerLocked, accum>>

\* the scene re-renders with a phase other than 'playing': PlayerController
\* is removed, MouseInput's effect releases the pointer lock; React commits
\* the re-render between two frames, e.unmountAt are the clock values at
\* which it may do so
Unmount(e) ==
    /\ phase # "playing"
    /\ mounted
    /\ clock \in e.unmountAt
    /\ mounted' = FALSE
    /\ IF pointerLocked THEN onLock ELSE UNCHANGED <<pointerLocked, accum>>
    /\ UNCHANGED <<serverVars, relayVars, phase, raceResult, clock, nInputs, controllerVars, keys,
                   interactPressed, hud, remotePlayers, frameMouse, orbitYaw>>

\* handlePlayAgain: the finish screen's button
PlayAgain ==
    /\ phase = "finished"
    /\ ~mounted
    /\ phase' = "menu"
    /\ hud' = createInitialState
    /\ raceResult' = NoResult
    /\ remotePlayers' = << >>
    /\ socket' = "none"
    /\ mp' = IF socket = "connected" THEN [mp EXCEPT !.status = "offline"]
             ELSE mp
    /\ wire' = IF socket = "connected"
               THEN [wire EXCEPT !.up[Me] = Append(@, [type |-> "disconnect"])]
               ELSE wire
    /\ UNCHANGED <<serverVars, raw, players, peer, mounted, clock, nInputs, controllerVars, keys,
                   interactPressed, accum, frameMouse, pointerLocked, orbitYaw>>

\* ------------------------------------------------------------ leaderboard
\* The REST API of the server (src/unnamed/part_000).  A JSON value of a
\* request body is a string (a sequence of characters), a number or absent;
\* a stored entry is [name, time], its date being left out.
MAX_NAME == 20
MAX_ENTRIES == 200
TOP_ENTRIES == 50

Undefined == [type |-> "undefined"]
Str(chars) == [type |-> "string", chars |-> chars]
Num(n) == [type |-> "number", value |-> n]

\* truthiness of a JSON value (!name)
Truthy(v) ==
    CASE v.type = "string" -> v.chars # << >>
      [] v.type = "number" -> v.value # 0
      [] OTHER -> FALSE

\* String(v) of a string or an integer
RECURSIVE Digits(_)
Digits(n) ==
    IF n < 10 THEN <<SubSeq(<<"0", "1", "2", "3", "4", "5", "6", "7", "8",
                              "9">>, n + 1, n + 1)[1]>>
    ELSE Digits(n \div 10) \o Digits(n % 10)

StringOf(v) ==
    IF v.type = "string" THEN v.chars
    ELSE IF v.value < 0 THEN <<"-">> \o Digits(-v.value)
    ELSE Digits(v.value)

\* s.slice(0, n)
slice(s, n) == SubSeq(s, 1, Min(Len(s), n))

\* entries.sort((a, b) => a.time - b.time): stable, ascending by time
SortByTime(entries) == SortSeq(entries, LAMBDA a, b : a.time < b.time)

\* variant of the validation that accepts any number as the time
InvalidType(body) == ~Truthy(body.name) \/ body.time.type # "number"

\* variant of the saved list without the two slices
Untrimmed(entries, body) ==
    SortByTime(Append(entries, [name |-> StringOf(body.name),
                                time |-> body.time.value]))

\* !name || typeof time !== 'number' || time <= 0
Invalid(body) ==
    \/ ~Truthy(body.name)
    \/ body.time.type # "number"
    \/ body.time.value <= 0

\* the list saved by a valid POST: push, sort, slice(0, 200)
Trimmed(entries, body) ==
    slice(SortByTime(Append(entries,
                            [name |-> slice(StringOf(body.name), MAX_NAME),
                             time |-> body.time.value])),
          MAX_ENTRIES)

\* e.time === time && e.name === name, for a stored entry e
SameEntry(e, body) ==
    /\ e.time = body.time.value
    /\ body.name.type = "string"
    /\ e.name = body.name.chars

\* trimmed.findIndex(...) + 1
Rank(trimmed, body) ==
    IF \E i \in DOMAIN trimmed : SameEntry(trimmed[i], body)
    THEN CHOOSE i \in DOMAIN trimmed :
           /\ SameEntry(trimmed[i], body)
           /\ \A j \in 1..(i - 1) : ~SameEntry(trimmed[j], body)
    ELSE 0

\* app.post('/api/leaderboard'); the reply keeps the request it answers
post(body) ==
    IF Invalid(body)
    THEN /\ reply' = [method |-> "POST", request |-> body, status |-> 400,
                      body |-> [error |-> "Invalid data"]]
         /\ UNCHANGED leaderboard
    ELSE /\ leaderboard' = Trimmed(leaderboard, body)
         /\ reply' = [method |-> "POST", request |-> body, status |-> 200,
                      body |-> [success |-> TRUE,
                                rank |-> Rank(Trimmed(leaderboard, body),
                                              body)]]

\* request number n of environment e carries one of e.bodies when n is in
\* e.free, and e.filler[n] otherwise
Post(e) ==
    /\ requests < e.maxRequests
    /\ \E body \in (IF requests + 1 \in e.free THEN e.bodies
                     ELSE {e.filler[requests + 1]}) : post(body)
    /\ requests' = requests + 1
    /\ UNCHANGED clientVars

\* variant of the GET handler that returns the whole list
GetAll ==
    /\ reply' = [method |-> "GET", request |-> Undefined, status |-> 200,
                 body |-> SortByTime(leaderboard)]
    /\ UNCHANGED <<leaderboard, requests, clientVars>>

\* app.get('/api/leaderboard')
Get ==
    /\ reply' = [method |-> "GET", request |-> Undefined, status |-> 200,
                 body |-> slice(SortByTime(leaderboard), TOP_ENTRIES)]
    /\ UNCHANGED <<leaderboard, requests, clientVars>>

\* ------------------------------------------------------------------ relay
\* The socket.io relay of the server and the App's socket handlers.  A
\* socket delivers its messages in order, so the traffic of a socket is one
\* queue per direction.

\* what this browser's App holds besides its socket
appVars == <<phase, mounted, clock, nInputs, controllerVars, keys,
             interactPressed, hud, remotePlayers, accum, frameMouse,
             pointerLocked, orbitYaw, raceResult>>

SocketOf(id) ==
    IF id = Me THEN socket ELSE IF id = Peer THEN peer.socket ELSE raw.socket

\* the sockets the server can reach
Connected == {id \in SocketIds : SocketOf(id) = "connected"}

\* the traffic after the server has taken the first message of socket id
Taken(w, id) == [w EXCEPT !.up[id] = Tail(@)]

\* the traffic after client id has sent msg
Sent(w, id, msg) == [w EXCEPT !.up[id] = Append(@, msg)]

\* socket.emit / socket.broadcast.emit / io.emit: msg queued for the
\* sockets ids that are still connected
Emit(w, ids, msg) ==
    [w EXCEPT !.down = [id \in SocketIds |->
                          IF id \in ids \cap Connected THEN Append(@[id], msg)
                          ELSE @[id]]]

\* players.get(id): the position of id's entry in the Map, 0 for none
PlayerAt(ps, id) == findIndex(ps, id)

\* variant that stores the name as it was sent
NewPlayerLong(id, data) ==
    [id |-> id, name |-> StringOf(data.name),
     position |-> <<0, 0, 0>>, rotation |-> 0, speed |-> 0,
     mode |-> "walking", vehicleId |-> NoId, pitch |-> 0, bank |-> 0]

\* the PlayerInfo 'join' creates
NewPlayer(id, data) ==
    [id |-> id, name |-> slice(StringOf(data.name), MAX_NAME),
     position |-> <<0, 0, 0>>, rotation |-> 0, speed |-> 0,
     mode |-> "walking", vehicleId |-> NoId, pitch |-> 0, bank |-> 0]

\* players.set(id, player)
SetPlayer(ps, id, player) ==
    IF PlayerAt(ps, id) = 0 THEN Append(ps, player)
    ELSE [ps EXCEPT ![PlayerAt(ps, id)] = player]

\* Array.from(players.values()).filter(p => p.id !== id)
Existing(ps, id) == SelectSeq(ps, LAMBDA q : q.id # id)

\* data.mode || 'walking': a field of a message is absent when the record
\* has no such field
ModeOr(data) ==
    IF "mode" \in DOMAIN data /\ data.mode # "" THEN data.mode ELSE "walking"

\* data.vehicleId ?? null
VehicleIdOr(data) ==
    IF "vehicleId" \in DOMAIN data THEN data.vehicleId ELSE NoId

\* data.pitch ?? 0, data.bank ?? 0
NumberOr(data, field) == IF field \in DOMAIN data THEN data[field] ELSE 0

\* the fields 'update' and 'playerUpdate' overwrite
Updated(q, data) ==
    [q EXCEPT !.position = data.position, !.rotation = data.rotation,
              !.speed = data.speed, !.mode = ModeOr(data),
              !.vehicleId = VehicleIdOr(data),
              !.pitch = NumberOr(data, "pitch"),
              !.bank = NumberOr(data, "bank")]

\* variant that relays the fields as they were sent
PlayerUpdateAsSent(q, data) ==
    [f \in DOMAIN data \cup {"id"} |->
       IF f = "id" THEN q.id
       ELSE IF f = "type" THEN "playerUpdate" ELSE data[f]]

\* the 'playerUpdate' the server emits for the updated entry q
PlayerUpdate(q, data) ==
    [type |-> "playerUpdate", id |-> q.id, position |-> data.position,
     rotation |-> data.rotation, speed |-> data.speed, mode |-> q.mode,
     vehicleId |-> q.vehicleId, pitch |-> q.pitch, bank |-> q.bank]

\* socket.on('join') of the server
ServerJoin ==
    \E id \in SocketIds :
       /\ wire.up[id] # << >>
       /\ Head(wire.up[id]).type = "join"
       /\ players' = SetPlayer(players, id,
                               NewPlayer(id, Head(wire.up[id])))
       /\ wire' = Emit(Emit(Taken(wire, id), {id},
                            [type |-> "players",
                             players |-> Existing(players', id)]),
                       SocketIds \ {id},
                       [type |-> "playerJoined",
                        player |-> NewPlayer(id, Head(wire.up[id]))])
       /\ UNCHANGED <<serverVars, raw, mp, appVars, socket, peer>>

\* socket.on('update') of the server
ServerUpdate ==
    \E id \in SocketIds :
       /\ wire.up[id] # << >>
       /\ Head(wire.up[id]).type = "update"
       /\ IF PlayerAt(players, id) = 0
          THEN /\ wire' = Taken(wire, id)
               /\ UNCHANGED players
          ELSE /\ players' = [players EXCEPT ![PlayerAt(players, id)] =
                                Updated(@, Head(wire.up[id]))]
               /\ wire' = Emit(Taken(wire, id), SocketIds \ {id},
                               PlayerUpdate(players'[PlayerAt(players, id)],
                                            Head(wire.up[id])))
       /\ UNCHANGED <<serverVars, raw, mp, appVars, socket, peer>>

\* socket.on('disconnect') of the server
ServerDisconnect ==
    \E id \in SocketIds :
       /\ wire.up[id] # << >>
       /\ Head(wire.up[id]).type = "disconnect"
       /\ players' = Existing(players, id)
       /\ wire' = Emit(Taken(wire, id), SocketIds,
                       [type |-> "playerLeft", id |-> id])
       /\ UNCHANGED <<serverVars, raw, mp, appVars, socket, peer>>

\* variant whose 'playerUpdate' handler adds the session when the list does
\* not hold it
HandledUpsert(prev, msg) ==
    CASE msg.type = "players" -> msg.players
      [] msg.type = "playerJoined" -> Append(prev, msg.player)
      [] msg.type = "playerUpdate" ->
           IF \E i \in DOMAIN prev : prev[i].id = msg.id
           THEN [i \in DOMAIN prev |-> IF prev[i].id = msg.id
                                       THEN Updated(prev[i], msg) ELSE prev[i]]
           ELSE Append(prev, Updated(NewPlayer(msg.id, [name |-> Str(<< >>)]), msg))
      [] msg.type = "playerLeft" -> SelectSeq(prev, LAMBDA q : q.id # msg.id)

\* the handlers connectMultiplayer registers for 'players', 'playerJoined',
\* 'playerUpdate' and 'playerLeft': the remotePlayers they set
Handled(prev, msg) ==
    CASE msg.type = "players" -> msg.players
      [] msg.type = "playerJoined" -> Append(prev, msg.player)
      [] msg.type = "playerUpdate" ->
           [i \in DOMAIN prev |-> IF prev[i].id = msg.id
                                  THEN Updated(prev[i], msg) ELSE prev[i]]
      [] msg.type = "playerLeft" -> SelectSeq(prev, LAMBDA q : q.id # msg.id)

\* the socket of a browser is connected: 'connect' handler, which joins;
\* e.connectAt are the clock values at which the handshake may complete
Connect(e) ==
    /\ clock \in e.connectAt
    /\ \E id \in SocketIds :
          /\ SocketOf(id) = "connecting"
          /\ IF id = Me
             THEN /\ socket' = "connected"
                  /\ mp' = [mp EXCEPT !.status = "online", !.attempts = 0]
                  /\ UNCHANGED peer
             ELSE /\ peer' = [peer EXCEPT !.socket = "connected"]
                  /\ UNCHANGED <<socket, mp>>
          /\ \E name \in e.names[id] :
                wire' = Sent(wire, id, [type |-> "join", name |-> name])
    /\ UNCHANGED <<serverVars, raw, appVars, players>>

\* this browser receives the next message of its socket
Receive ==
    /\ socket = "connected"
    /\ wire.down[Me] # << >>
    /\ remotePlayers' = Handled(remotePlayers, Head(wire.down[Me]))
    /\ wire' = [wire EXCEPT !.down[Me] = Tail(@)]
    /\ UNCHANGED <<serverVars, raw, mp, socket, players, peer, phase, mounted, clock,
                   nInputs, controllerVars, keys, interactPressed, hud, accum,
                   frameMouse, pointerLocked, orbitYaw, raceResult>>

\* ---- the peer: the same App in a second browser, reduced to what the
\* relay sees of it

\* handleStart of the peer; e.peerAt are the clock values of this browser
\* at which the peer's player acts and the peer renders a frame
PeerStart(e) ==
    /\ clock \in e.peerAt
    /\ peer.phase = "menu"
    /\ peer' = [peer EXCEPT !.phase = "playing", !.socket = "connecting"]
    /\ UNCHANGED <<serverVars, raw, mp, appVars, socket, wire, players>>

\* the peer receives the next message of its socket
PeerReceive ==
    /\ peer.socket = "connected"
    /\ wire.down[Peer] # << >>
    /\ peer' = [peer EXCEPT
                  !.remotePlayers = Handled(@, Head(wire.down[Peer]))]
    /\ wire' = [wire EXCEPT !.down[Peer] = Tail(@)]
    /\ UNCHANGED <<serverVars, raw, mp, appVars, socket, players>>

\* vehicle ids the peer's scene holds taken (GameScene.takenVehicleIds)
TakenBy(rps) == {rps[i].vehicleId : i \in 1..Len(rps)} \ {NoId}

\* type of the roster's vehicle with the given id
TypeOfId(id) == makeVehicles[findIndex(makeVehicles, id)].type

\* a frame of the peer that consumes an interact press: on foot it enters
\* the vehicle of e.peerReach it stands beside unless its scene holds the
\* vehicle taken (tickWalking), in a vehicle it leaves it (exitVehicle)
PeerInteract(e) ==
    /\ clock \in e.peerAt
    /\ peer.phase = "playing"
    /\ IF peer.mode = "walking"
       THEN \E id \in e.peerReach \ TakenBy(peer.remotePlayers) :
               peer' = [peer EXCEPT !.mode = ModeOf(TypeOfId(id)),
                                    !.vehicleId = id]
       ELSE peer' = [peer EXCEPT !.mode = "walking", !.vehicleId = NoId]
    /\ UNCHANGED <<serverVars, raw, mp, appVars, socket, wire, players>>

\* position the peer reports: where the vehicle it sits in is parked, or
\* the spot e.peerSpot where it stands
PeerPosition(e) ==
    IF peer.vehicleId = NoId THEN e.peerSpot
    ELSE LET v == makeVehicles[findIndex(makeVehicles, peer.vehicleId)]
         IN  <<v.x, v.y, v.z>>

\* a frame of the peer that calls syncToReact: handleStateUpdate emits
\* 'update' when the socket is connected; at most e.peerUpdates of them
PeerSync(e) ==
    /\ clock \in e.peerAt
    /\ peer.phase = "playing"
    /\ peer.socket = "connected"
    /\ peer.sent < e.peerUpdates
    /\ wire' = Sent(wire, Peer,
                    [type |-> "update", position |-> PeerPosition(e),
                     rotation |-> 0, speed |-> 0, mode |-> peer.mode,
                     vehicleId |-> peer.vehicleId, pitch |-> 0, bank |-> 0])
    /\ peer' = [peer EXCEPT !.sent = @ + 1]
    /\ UNCHANGED <<serverVars, raw, mp, appVars, socket, players>>

\* the peer's player closes the page: its socket disconnects
PeerLeave(e) ==
    /\ clock \in e.peerAt
    /\ peer.phase = "playing"
    /\ peer' = [peer EXCEPT !.phase = "left", !.socket = "none"]
    /\ wire' = IF peer.socket = "connected"
               THEN Sent(wire, Peer, [type |-> "disconnect"])
               ELSE wire
    /\ UNCHANGED <<serverVars, raw, mp, appVars, socket, players>>

\* ---- the relay is unreachable or goes away

\* io({ reconnectionAttempts: 5 })
reconnectionAttempts == 5

\* variant of the 'connect_error' handler that leaves the socket to its
\* manager, which tries again
ConnectErrorRetrying(e) ==
    /\ clock \in e.errorAt
    /\ socket = "connecting"
    /\ mp' = [mp EXCEPT !.status = "offline", !.attempts = @ + 1]
    /\ UNCHANGED <<serverVars, raw, appVars, socket, wire, players, peer>>

\* a connection attempt fails: the 'connect_error' handler sets the status,
\* disconnects the socket, which ends the attempts of its manager, and
\* clears socketRef; e.errorAt are the clock values at which the relay is
\* unreachable
ConnectError(e) ==
    /\ clock \in e.errorAt
    /\ socket = "connecting"
    /\ mp' = [mp EXCEPT !.status = "offline"]
    /\ socket' = "none"
    /\ UNCHANGED <<serverVars, raw, appVars, wire, players, peer>>

\* the relay drops the connection of this browser, at most e.maxDrops
\* times: the 'disconnect' handler sets the status, the server sees the
\* socket disconnect, what it had queued for the socket is lost, and the
\* socket's manager starts a reconnection attempt
Drop(e) ==
    /\ clock \in e.dropAt
    /\ mp.drops < e.maxDrops
    /\ socket = "connected"
    /\ socket' = "connecting"
    /\ mp' = [status |-> "offline", attempts |-> 1, drops |-> mp.drops + 1]
    /\ wire' = [wire EXCEPT !.up[Me] = Append(@, [type |-> "disconnect"]),
                            !.down[Me] = << >>]
    /\ UNCHANGED <<serverVars, raw, appVars, players, peer>>

\* ---- a session that is not the App: it sends what e.rawMessages holds

\* the raw session's socket connects; e.rawAt are the clock values of this
\* browser at which the raw session acts
RawConnect(e) ==
    /\ clock \in e.rawAt
    /\ raw.socket = "none"
    /\ raw' = [raw EXCEPT !.socket = "connected"]
    /\ UNCHANGED <<serverVars, appVars, mp, socket, wire, players, peer>>

\* the raw session emits one of its messages, at most e.rawBudget of them
RawSend(e) ==
    /\ clock \in e.rawAt
    /\ raw.socket = "connected"
    /\ raw.sent < e.rawBudget
    /\ \E msg \in e.rawMessages : wire' = Sent(wire, Raw, msg)
    /\ raw' = [raw EXCEPT !.sent = @ + 1]
    /\ UNCHANGED <<serverVars, appVars, mp, socket, players, peer>>

\* ------------------------------------------------------------ environments
\* An environment e bounds what the browser delivers: the input events with
\* the clock values at which each may arrive, at most e.budget of them, the
\* frames with their inputs, and the clock value at which the run ends.

NoNear == [i \in 1..MAX_BULLETS |-> {}]

\* frames of the given durations that may be rendered at the clock values
\* `at`, every position they compute being found at one of the track infos
FramesAt(deltas, tis, at) ==
    {[delta |-> d, tiNew |-> ti, tiHit |-> ti, tiExit |-> ti, low |-> {},
      near |-> NoNear, at |-> at] : d \in deltas, ti \in tis}

Press(code, at) == [code |-> code, repeat |-> FALSE, at |-> at]
Release(code, at) == [code |-> code, at |-> at]

\* track info of the grass beside the start line, where the character walks
Roadside == TrackInfo(5, 900, 0)

\* Lap environment: the player runs to car-red (W and Shift from the start,
\* E after eight frames), and for seven frames the car is found anywhere
\* along the lap; afterwards it stays at mid-lap until the boost is spent.
MaxClockLap == 4000
BudgetLap == 5
LapWindowEnd == 750
LapTis ==
    {TrackInfo(100, 300, 0), TrackInfo(450, 300, 0), TrackInfo(600, 300, 0),
     TrackInfo(950, 300, 0)}

EnvLap ==
    [budget |-> BudgetLap,
     downs |-> {Press("KeyW", {0}), Press("ShiftLeft", {0}),
                Press("KeyE", {400, 600, 650})},
     ups |-> {Release("ShiftLeft", {500})},
     moves |-> {}, presses |-> {}, releases |-> {}, clicks |-> {},
     unlocks |-> {},
     unmountAt |-> {1000, 1400},
     frames |-> FramesAt({50}, {Roadside}, 0..400)
           \cup FramesAt({50}, LapTis, 450..LapWindowEnd)
           \cup FramesAt({50}, {TrackInfo(450, 300, 0)},
                         (LapWindowEnd + 1)..MaxClockLap),
     maxClock |-> MaxClockLap]

NextLap ==
    \/ Start
    \/ KeyDown(EnvLap)
    \/ KeyUp(EnvLap)
    \/ Frame(EnvLap)
    \/ Unmount(EnvLap)
    \/ PlayAgain

SpecLap == Init /\ [][NextLap]_vars

\* ------------------------------------------------------------ lap claims
\* the curve parameter of the position the active vehicle starts a frame at
ActiveT == vehicles[activeIdx].ti.t

AllCheckpoints == \A i \in DOMAIN race.checkpoints : race.checkpoints[i]

\* C1: the lap counter goes up only by one, only in a driving frame whose
\* previous parameter is above 0.85, whose current parameter is below 0.15
\* and with every checkpoint flag set; a frame that wraps from above 0.85 to
\* below 0.15 with a flag unset leaves the lap counter, the best lap, the
\* lap-start time and every flag as they were.
C1_LapNeedsEveryCheckpoint ==
    [][/\ race'.lap > race.lap =>
            /\ race'.lap = race.lap + 1
            /\ clock' > clock
            /\ mode = "driving"
            /\ race.lastT > 850
            /\ ActiveT < 150
            /\ AllCheckpoints
       /\ ( /\ clock' > clock
            /\ mode = "driving"
            /\ race.lastT > 850
            /\ ActiveT < 150
            /\ ~AllCheckpoints )
          => /\ race'.lap = race.lap
             /\ race'.bestLap = race.bestLap
             /\ race'.lapStart = race.lapStart
             /\ race'.checkpoints = race.checkpoints]_vars

\* a frame has just completed the first lap
C1_LapCompleted ==
    /\ frameLog.laps = 1
    /\ race.lap = 1
    /\ race.lastT < 150
    /\ race.checkpoints = NoCheckpoints

\* currT - prevT, in samples, as the doubles compare with 0 and 0.5
C2_Forward(prevT, currT) ==
    /\ currT > prevT
    /\ \/ currT - prevT < TRACK_SAMPLES \div 2
       \/ currT - prevT = TRACK_SAMPLES \div 2 /\ prevT \in HalfRoundsDown

\* C2: a checkpoint flag turns true only in a driving frame in which
\* prevT < cpT <= currT and 0 < currT - prevT < 0.5, and a flag that is true
\* turns false only when a lap completes or a new session begins (a car is
\* entered, or the controller is mounted afresh).
C2_CheckpointsMonotone ==
    [][\A i \in DOMAIN race.checkpoints :
         /\ ( /\ ~race.checkpoints[i]
              /\ i \in DOMAIN race'.checkpoints
              /\ race'.checkpoints[i] )
            => /\ clock' > clock
               /\ mode = "driving"
               /\ (NUM_CHECKPOINTS + 1) * race.lastT < TRACK_SAMPLES * i
               /\ (NUM_CHECKPOINTS + 1) * ActiveT >= TRACK_SAMPLES * i
               /\ C2_Forward(race.lastT, ActiveT)
         /\ ( /\ race.checkpoints[i]
              /\ ~(i \in DOMAIN race'.checkpoints /\ race'.checkpoints[i]) )
            => \/ race'.lap = race.lap + 1
               \/ mode = "walking" /\ mode' = "driving"
               \/ ~mounted /\ mounted']_vars

\* a driving frame has set the first four flags and no other
C2_FlagsSet ==
    /\ mode = "driving"
    /\ frameLog.tick = "driving"
    /\ race.lap = 0
    /\ \A i \in 1..NUM_CHECKPOINTS : race.checkpoints[i] <=> i <= 4

\* C29: in every state the passed checkpoints are a prefix of the
\* checkpoint list: checkpoint i is true only if every checkpoint with a
\* smaller parameter is true.
C29_PassedIsPrefix ==
    \A i \in DOMAIN race.checkpoints :
       race.checkpoints[i] => \A j \in 1..(i - 1) : race.checkpoints[j]

\* a driving frame that runs the lap tracking block on a session that is
\* not started
C30_TrackedUnstarted ==
    /\ clock' > clock
    /\ mode = "driving"
    /\ race'.active
    /\ ~race.started
    /\ 10 * vehicles[activeIdx].ti.dist < 12 * TRACK_WIDTH

\* C30 as stated: before the session is started no checkpoint flag is set
\* and no lap is completed, and the session becomes started only in a
\* frame that finds the car past 0.05 after it was driven forward from the
\* last-known parameter: not in the first driving frame after the car was
\* entered, and not after the parameter went backwards or across the line.
C30_StartedByAdvancing ==
    /\ [](~race.started =>
            /\ race.lap = 0
            /\ \A i \in DOMAIN race.checkpoints : ~race.checkpoints[i])
    /\ [][~race.started /\ race'.started =>
            /\ clock' > clock
            /\ mode = "driving"
            /\ ActiveT > 50
            /\ frameLog.tick = "driving"
            /\ C2_Forward(race.lastT, ActiveT)]_vars

\* C30: before the session is started no checkpoint flag is set and no lap
\* is completed; the session becomes started exactly in the first driving
\* frame that finds the car within the tracking distance at a parameter
\* above 0.05, however the car got there.
C30_StartedPastStart ==
    /\ [](~race.started =>
            /\ race.lap = 0
            /\ \A i \in DOMAIN race.checkpoints : ~race.checkpoints[i])
    /\ [][~race.started /\ race'.started =>
            C30_TrackedUnstarted /\ ActiveT > 50]_vars
    /\ [][C30_TrackedUnstarted =>
            (race'.started <=> ActiveT > 50)]_vars

\* the session has started in a frame that found the car at 0.95, behind
\* the start line, with no checkpoint passed
C30_StartedBehindLine ==
    /\ mode = "driving"
    /\ race.started
    /\ race.lap = 0
    /\ race.lastT = 950
    /\ \A i \in DOMAIN race.checkpoints : ~race.checkpoints[i]
    /\ frameLog.tick = "driving"

\* C11: within one racing session the best lap is null while no lap is
\* completed; a frame that completes the first lap sets it to the duration
\* passed to onLapComplete, a frame that completes a later lap sets it to
\* the smaller of the previous best and that duration, and nothing else
\* changes it while the session lasts: after N laps it is the minimum of the
\* N durations.
C11_BestLapIsMinimum ==
    [][/\ race.lap = 0 => race.bestLap = NoTime
       /\ race'.lap = 0 => race'.bestLap = NoTime
       /\ race'.lap = race.lap + 1 =>
            /\ frameLog'.laps = 1
            /\ race'.bestLap = IF race.lap = 0 THEN frameLog'.lapTime
                               ELSE Min(race.bestLap, frameLog'.lapTime)
       /\ race'.lap = race.lap => race'.bestLap = race.bestLap]_vars

\* a second lap slower than the first has just completed
C11_SlowerSecondLap ==
    /\ frameLog.laps = 1
    /\ race.lap = 2
    /\ race.bestLap # NoTime
    /\ race.bestLap < frameLog.lapTime

\* ------------------------------------------------------------ race claims
\* Race environment: the player runs to car-red and enters it; for ten
\* frames of 50 ms the car is found at one of three places along the lap
\* (once, possibly, far from the road), and afterwards at mid-lap; the
\* finish screen replaces the scene some frames after the race.
MaxClockRace == 1400
BudgetRace == 3
RaceWindowEnd == 900
RaceTis ==
    {TrackInfo(100, 300, 0), TrackInfo(450, 300, 0), TrackInfo(950, 300, 0)}

EnvRace ==
    [budget |-> BudgetRace,
     downs |-> {Press("KeyW", {0}), Press("ShiftLeft", {0}),
                Press("KeyE", {400})},
     ups |-> {},
     moves |-> {}, presses |-> {}, releases |-> {}, clicks |-> {},
     unlocks |-> {},
     unmountAt |-> {1000, 1200},
     frames |-> FramesAt({50}, {Roadside}, 0..400)
           \cup FramesAt({50}, RaceTis, 450..RaceWindowEnd)
           \cup FramesAt({50}, {TrackInfo(100, 2500, 0)}, {700})
           \cup FramesAt({50}, {TrackInfo(450, 300, 0)},
                         (RaceWindowEnd + 1)..MaxClockRace),
     maxClock |-> MaxClockRace]

NextRace ==
    \/ Start
    \/ KeyDown(EnvRace)
    \/ Frame(EnvRace)
    \/ Unmount(EnvRace)
    \/ PlayAgain

SpecRace == Init /\ [][NextRace]_vars

\* C12: in a driving frame that starts with every checkpoint flag set and
\* takes the tracked curve parameter from 0.9 or above to 0.1 or below, the
\* lap counter goes up by exactly one and onLapComplete is called once, with
\* a positive duration; when the counter reaches TOTAL_LAPS the same frame
\* calls onRaceFinish after that onLapComplete and marks the session
\* finished, and otherwise the frame calls nothing else.
C12_LapAndFinish ==
    [][( /\ clock' > clock
         /\ mode = "driving"
         /\ AllCheckpoints
         /\ race.lastT >= 900
         /\ race'.lastT <= 100 )
       => /\ race'.lap = race.lap + 1
          /\ frameLog'.laps = 1
          /\ frameLog'.lapTime > 0
          /\ frameLog'.calls =
                IF race'.lap >= TOTAL_LAPS
                THEN <<"onLapComplete", "onRaceFinish">>
                ELSE <<"onLapComplete">>
          /\ race'.finished <=> race'.lap >= TOTAL_LAPS
          /\ race'.lap >= TOTAL_LAPS => phase' = "finished"]_vars

\* the frame that completed lap TOTAL_LAPS has called onLapComplete and
\* then onRaceFinish
C12_RaceFinished ==
    /\ frameLog.calls = <<"onLapComplete", "onRaceFinish">>
    /\ race.lap = TOTAL_LAPS
    /\ race.finished
    /\ race.lastT <= 100
    /\ phase = "finished"

\* C13: once the lap count has reached TOTAL_LAPS the session is finished
\* and the race result shows the total elapsed time of the session, the
\* time of the finishing frame (kept as the start of the next lap) minus
\* the race start.
C13_ResultIsTotalTime ==
    /\ race.lap >= TOTAL_LAPS => race.finished
    /\ raceResult # NoResult /\ race.finished =>
          raceResult.totalTime = race.lapStart - race.raceStart

\* ------------------------------------------------------------ collisions
\* a remote player as the relay lists it
RemotePlayer(id, x, z, rpMode, vehicleId) ==
    [id |-> id, position |-> <<x, 0, z>>, mode |-> rpMode,
     vehicleId |-> vehicleId]

\* Collide environment: the player runs to car-red, enters it and drives
\* straight at car-orange with or without boost; before or after the player
\* enters the car the relay lists one other player, on foot, standing
\* somewhere beside the line between the two cars.
MaxClockCollide == 1100
BudgetCollide == 5
CollideXs == {1450, 1500, 1550, 1600}
CollideZs == {20900, 21000, 21100}

EnvCollide ==
    [budget |-> BudgetCollide,
     downs |-> {Press("KeyW", {0}), Press("ShiftLeft", {0}),
                Press("KeyE", {400})},
     ups |-> {Release("ShiftLeft", {450}), Release("KeyW", {750})},
     moves |-> {}, presses |-> {}, releases |-> {}, clicks |-> {},
     unlocks |-> {},
     remotes |-> {[players |-> <<RemotePlayer("p2", x, z, "walking", NoId)>>,
                   at |-> {0, 750}] : x \in CollideXs, z \in CollideZs},
     unmountAt |-> {},
     frames |-> FramesAt({50}, {Roadside}, 0..400)
           \cup FramesAt({50}, {TrackInfo(20, 300, 0)}, 450..MaxClockCollide),
     maxClock |-> MaxClockCollide]

NextCollide ==
    \/ Start
    \/ KeyDown(EnvCollide)
    \/ KeyUp(EnvCollide)
    \/ Players(EnvCollide)
    \/ Frame(EnvCollide)

SpecCollide == Init /\ [][NextCollide]_vars

\* C14: after a frame's collision step the active vehicle is at planar
\* distance at least the sum of the radii from every local vehicle it
\* overlapped when the step began, and an active vehicle that is at rest
\* with no throttle or brake applied is still at rest after the frame.
\* (0.2 unit of slack covers the rounding of the fixed-point arithmetic.)
C14_NoResidualPenetration ==
    [][clock' > clock /\ activeIdx' # NoVehicle =>
         /\ \A i \in frameLog'.overlapped :
               PlanarDistance(vehicles'[activeIdx'], vehicles'[i],
                              Radius(vehicles'[activeIdx'].type)
                                + Radius(vehicles'[i].type))
                 >= Radius(vehicles'[activeIdx'].type)
                      + Radius(vehicles'[i].type) - 20
         /\ ( /\ activeIdx = activeIdx'
              /\ vehicles[activeIdx].speed = 0
              /\ ~keys.forward /\ ~keys.backward )
            => vehicles'[activeIdx].speed = 0]_vars

\* the heading of the active vehicle along the line from the obstacle to
\* the vehicle in contact k, positive when the nose points away from the
\* obstacle
C36_Heading(k) == SinK(k.rot) * (k.mx - k.ox) + CosK(k.rot) * (k.mz - k.oz)

MaxRequests == 204

Chars(ch, n) == Str([i \in 1..n |-> ch])
Ace == Str(<<"A", "c", "e">>)
Body(name, time) == [name |-> name, time |-> time]

BoardBodies ==
    {Body(Ace, Num(65000)), Body(Ace, Num(100)),
     Body(Chars("y", MAX_NAME + 1), Num(65000)), Body(Num(7), Num(100)),
     Body(Chars("x", MAX_NAME), Num(2000000)),
     Body(Undefined, Num(65000)), Body(Str(<< >>), Num(65000)),
     Body(Ace, Num(0)), Body(Ace, Num(-5)), Body(Ace, Str(<<"5">>))}

EnvBoard ==
    [maxRequests |-> MaxRequests,
     free |-> {1, 2, MaxRequests - 1, MaxRequests},
     bodies |-> BoardBodies,
     filler |-> [n \in 1..(MaxRequests + 1) |->
                   Body(Str(<<"f">>), Num(1000 + n))]]

NextBoard ==
    \/ Post(EnvBoard)
    \/ Get

SpecBoard == Init /\ [][NextBoard]_vars

\* C15: the stored entries are sorted ascending by time, there are at most
\* 200 of them and every stored name has at most 20 characters.
C15_StoreInvariant ==
    /\ \A i \in 1..(Len(leaderboard) - 1) :
          leaderboard[i].time <= leaderboard[i + 1].time
    /\ Len(leaderboard) <= 200
    /\ \A i \in DOMAIN leaderboard : Len(leaderboard[i].name) <= 20

\* the store is at its cap, a POST has just dropped the slowest entry, and
\* a 21-character name is stored cut to 20 characters
C15_FullStore ==
    /\ Len(leaderboard) = 200
    /\ requests > 200
    /\ reply.method = "POST" /\ reply.status = 200
    /\ \E i \in DOMAIN leaderboard :
          leaderboard[i].name = [k \in 1..20 |-> "y"]

\* C16: a POST answered with success reports as rank the 1-based position
\* of the entry just inserted: the stored entry at that position has the
\* posted time and the posted name (cut to 20 characters), and is the last
\* of the stored entries with that time.
C16_RankIsPosition ==
    reply.method = "POST" /\ reply.status = 200 =>
       /\ reply.body.rank \in 1..Len(leaderboard)
       /\ leaderboard[reply.body.rank] =
             [name |-> SubSeq(StringOf(reply.request.name), 1,
                              Min(20, Len(StringOf(reply.request.name)))),
              time |-> reply.request.time.value]
       /\ \A j \in (reply.body.rank + 1)..Len(leaderboard) :
             leaderboard[j].time > reply.request.time.value

\* C17: a GET is answered with at most 50 entries, ascending by time, which
\* are the first min(50, n) entries of the sorted store, and it leaves the
\* store as it was.
C17_GetIsPrefix ==
    [][reply'.method = "GET" =>
         /\ leaderboard' = leaderboard
         /\ reply'.status = 200
         /\ Len(reply'.body) = Min(50, Len(leaderboard))
         /\ \A i \in 1..Len(reply'.body) :
               reply'.body[i] = SortByTime(leaderboard)[i]
         /\ \A i \in 1..(Len(reply'.body) - 1) :
               reply'.body[i].time <= reply'.body[i + 1].time]_vars

\* a GET on a store of more than 50 entries has returned 50
C17_FiftyReturned ==
    /\ reply.method = "GET"
    /\ Len(leaderboard) > 50
    /\ Len(reply.body) = 50

\* the request bodies C18 speaks of: the name missing or empty, the time
\* not a number or not above zero
C18_BadBody(body) ==
    \/ body.name.type = "undefined"
    \/ body.name.type = "string" /\ body.name.chars = << >>
    \/ body.time.type # "number"
    \/ body.time.value <= 0

\* C18: a POST whose name is missing or empty, or whose time is not a
\* number or is zero or negative, is answered 400 and leaves the stored
\* leaderboard unchanged.
C18_InvalidRejected ==
    [][requests' = requests + 1 /\ C18_BadBody(reply'.request) =>
         /\ reply'.status = 400
         /\ leaderboard' = leaderboard]_vars

\* a POST with a valid name and time zero has been answered 400 while the
\* store holds entries
C18_ZeroTimeRejected ==
    /\ reply.method = "POST"
    /\ reply.status = 400
    /\ reply.request.name.type = "string"
    /\ reply.request.name.chars # << >>
    /\ reply.request.time = Num(0)
    /\ Len(leaderboard) = 200

\* ------------------------------------------------------------ boost claim
\* the meter after a frame of dt ms that drains (30 per second) or
\* regenerates (12 per second); the meter counts hundredths
C8_Rule(meter, drains, dt) ==
    IF drains
    THEN (IF meter - 3 * dt < 0 THEN 0 ELSE meter - 3 * dt)
    ELSE (IF meter + (12 * dt) \div 10 > 10000 THEN 10000
          ELSE meter + (12 * dt) \div 10)

\* a frame that runs the boost block of tickDriving: the mode is driving,
\* E was not pressed since the last frame and the race is not finished
C8_BoostFrame ==
    clock' > clock /\ mode = "driving" /\ ~interactPressed /\ ~race.finished

\* C8 (amended): the boost meter stays in [0, 100]; in a driving frame that
\* neither leaves the car nor belongs to a finished race it drains at 30 per
\* second of clamped frame time exactly when shift and forward are held and
\* the meter is above 0, and otherwise regenerates at 12 per second, clamped
\* at the bounds; no other frame and no input event changes the meter, and
\* a freshly mounted controller starts with a full meter.
C8_BoostMeter ==
    [][/\ boostMeter \in 0..10000
       /\ boostMeter' \in 0..10000
       /\ C8_BoostFrame =>
            boostMeter' = C8_Rule(boostMeter,
                                  keys.shift /\ keys.forward /\ boostMeter > 0,
                                  frameLog'.dt)
       /\ ~C8_BoostFrame =>
            \/ boostMeter' = boostMeter
            \/ ~mounted /\ mounted' /\ boostMeter' = 10000]_vars

\* C8 as stated: every frame that starts and ends in the driving mode
\* drains or regenerates the meter
C8_EveryDrivingFrame ==
    [][clock' > clock /\ mode = "driving" /\ mode' = "driving" =>
         boostMeter' = C8_Rule(boostMeter,
                               keys.shift /\ keys.forward /\ boostMeter > 0,
                               frameLog'.dt)]_vars

\* a boosting frame has just emptied the meter
C8_MeterEmptied ==
    /\ mode = "driving"
    /\ frameLog.tick = "driving"
    /\ frameLog.boosting
    /\ boostMeter = 0

\* ------------------------------------------------------------ driving
\* Drive environment: the player runs to car-red, enters it and drives with
\* the throttle held, steering left or right or not at all.
MaxClockDrive == 1500
BudgetDrive == 5

EnvDrive ==
    [budget |-> BudgetDrive,
     downs |-> {Press("KeyW", {0}), Press("ShiftLeft", {0}),
                Press("KeyE", {400}), Press("KeyA", {450, 700}),
                Press("KeyD", {450})},
     ups |-> {Release("KeyA", {900}), Release("ShiftLeft", {450})},
     moves |-> {}, presses |-> {}, releases |-> {}, clicks |-> {},
     unlocks |-> {},
     unmountAt |-> {},
     frames |-> FramesAt({50}, {Roadside}, 0..400)
           \cup FramesAt({50}, {TrackInfo(20, 300, 0)}, 450..MaxClockDrive),
     maxClock |-> MaxClockDrive]

NextDrive ==
    \/ Start
    \/ KeyDown(EnvDrive)
    \/ KeyUp(EnvDrive)
    \/ Frame(EnvDrive)

SpecDrive == Init /\ [][NextDrive]_vars

\* C5: at the end of every driving frame the speed of the car is at least
\* -18 (reverseMax) and at most 135 (maxSpeed with boost), the wall bounce
\* and the vehicle collisions of the frame included.
C5_CarSpeedRange ==
    mode = "driving" =>
        /\ vehicles[activeIdx].speed >= -DRIVE.reverseMax
        /\ vehicles[activeIdx].speed <= (DRIVE.maxSpeed * 3) \div 2

\* C7: after any frame the heading, of the character when walking and of
\* the active vehicle otherwise, is above -pi and at most pi.
C7_HeadingWrapped ==
    /\ mode = "walking" => charRot > -PI /\ charRot <= PI
    /\ mode # "walking" /\ activeIdx # NoVehicle =>
          /\ vehicles[activeIdx].rot > -PI
          /\ vehicles[activeIdx].rot <= PI

\* ------------------------------------------------------------ flying
\* Fly environment: the player runs past the cars to plane-red (28 frames of
\* 50 ms), may take car-red on the way, locks the pointer, holds the fire
\* button and flies on a slow machine: frames arrive every 100 ms, so the
\* gun fires in every frame.  One mouse flick turns the plane toward
\* plane-gold.  The first bullet may hit target 3, the second may drop
\* below the ground.  After the frame of the hit the machine may recover
\* and render a frame every 37 ms.
MaxClockFly == 7800
BudgetFly == 6
FlyClocks == {1450 + 100 * i : i \in 0..63}
FastClocks == {1750 + 37 * i : i \in 0..82}
AirTi == TrackInfo(30, 500, 0)

FlyFrames ==
    LET f == [delta |-> 100, tiNew |-> AirTi, tiHit |-> AirTi,
              tiExit |-> AirTi, low |-> {}, near |-> NoNear, at |-> FlyClocks]
    IN  {f,
         [f EXCEPT !.near = [NoNear EXCEPT ![1] = {3}], !.at = {1650}],
         [f EXCEPT !.low = {2}, !.at = {1850}],
         [f EXCEPT !.delta = 37, !.at = FastClocks]}

EnvFly ==
    [budget |-> BudgetFly,
     downs |-> {Press("KeyW", {0}), Press("ShiftLeft", {0}),
                Press("KeyE", {400, 1400, 1450, 1550}),
                Press("Space", {1450})},
     ups |-> {Release("ShiftLeft", {1450})},
     moves |-> {[dx |-> 4700, dy |-> 0, at |-> {1450}]},
     presses |-> {[button |-> 0, at |-> {1400}]},
     releases |-> {[button |-> 0, at |-> {1750}]},
     clicks |-> {[at |-> {0}]},
     unlocks |-> {},
     unmountAt |-> {},
     frames |-> FramesAt({50}, {Roadside}, 0..1400) \cup FlyFrames,
     maxClock |-> MaxClockFly]

NextFly ==
    \/ Start
    \/ KeyDown(EnvFly)
    \/ KeyUp(EnvFly)
    \/ Click(EnvFly)
    \/ MouseMove(EnvFly)
    \/ MouseDown(EnvFly)
    \/ MouseUp(EnvFly)
    \/ Frame(EnvFly)

SpecFly == Init /\ [][NextFly]_vars

\* ------------------------------------------------------------ entering
\* Enter environment: the player runs past the cars to plane-red and may
\* press E on the way: before car-red is in reach, beside it, while driving
\* it (the car has crossed t > 0.05 by then, so its race has started), just
\* after leaving it, and beside the plane.  The relay may list one other
\* player, far away, who occupies car-red or plane-red.
MaxClockEnter == 1700
BudgetEnter == 6

EnvEnter ==
    [budget |-> BudgetEnter,
     downs |-> {Press("KeyW", {0}), Press("ShiftLeft", {0}),
                Press("KeyE", {350, 400, 700, 750, 1400, 1450, 1500})},
     ups |-> {},
     moves |-> {}, presses |-> {}, releases |-> {}, clicks |-> {},
     unlocks |-> {},
     remotes |-> {[players |-> <<RemotePlayer("p2", 9000, 9000, "driving",
                                              "car-red")>>,
                   at |-> {0, 400}],
                  [players |-> <<RemotePlayer("p2", 9000, 9000, "flying",
                                              "plane-red")>>,
                   at |-> {0, 400}]},
     unmountAt |-> {},
     frames |-> FramesAt({50}, {Roadside}, 0..400)
           \cup FramesAt({50}, {TrackInfo(100, 300, 0)}, 450..650)
           \cup FramesAt({50}, {Roadside}, 700..MaxClockEnter),
     maxClock |-> MaxClockEnter]

NextEnter ==
    \/ Start
    \/ KeyDown(EnvEnter)
    \/ Players(EnvEnter)
    \/ Frame(EnvEnter)

SpecEnter == Init /\ [][NextEnter]_vars

\* squared planar distance from the character to vehicle i of the roster,
\* capped at the squared interact radius
C19_Dist2(pos, v) ==
    IF Abs(pos.x - v.x) >= 600 \/ Abs(pos.z - v.z) >= 600
    THEN 600 * 600
    ELSE (pos.x - v.x) * (pos.x - v.x) + (pos.z - v.z) * (pos.z - v.z)

\* the vehicles no remote player occupies that are less than 6 units from
\* the given position
C19_InReach(pos) ==
    {i \in 1..Len(vehicles) :
        /\ \A k \in 1..Len(remotePlayers) :
              remotePlayers[k].vehicleId # vehicles[i].id
        /\ C19_Dist2(pos, vehicles[i]) < 600 * 600}

\* C19: a walking frame that consumes an interact press, with an unclaimed
\* vehicle less than 6 units from where the character stands after the
\* frame's movement, makes the nearest such vehicle active and switches to
\* driving for a car, flying for a plane; for a car the racing session is
\* re-initialised (active, lap 0, no checkpoint passed, no best lap, not
\* started, not finished), for a plane no racing session is active; with
\* no unclaimed vehicle in reach the player keeps walking.
C19_EnterNearestUnclaimed ==
    [][clock' > clock /\ mode = "walking" /\ interactPressed =>
         IF C19_InReach(charPos') = {}
         THEN mode' = "walking" /\ activeIdx' = NoVehicle
         ELSE /\ activeIdx' \in C19_InReach(charPos')
              /\ \A j \in C19_InReach(charPos') :
                    C19_Dist2(charPos', vehicles[activeIdx'])
                      <= C19_Dist2(charPos', vehicles[j])
              /\ vehicles[activeIdx'].type = "car" =>
                    /\ mode' = "driving"
                    /\ race'.active /\ race'.lap = 0
                    /\ race'.checkpoints = NoCheckpoints
                    /\ race'.bestLap = NoTime
                    /\ ~race'.started /\ ~race'.finished
              /\ vehicles[activeIdx'].type # "car" =>
                    /\ mode' = "flying"
                    /\ ~race'.active]_vars

\* C33: a frame that starts walking and ends walking leaves as interaction
\* target the nearest vehicle of the roster that no remote player occupies
\* and that is less than 6 units from the character, or null when there is
\* none; a frame that starts walking and enters a vehicle enters one that
\* no remote player of the list occupies, and leaves the target null.
C33_NearestUnclaimedTarget ==
    [][clock' > clock /\ mode = "walking" =>
         IF mode' = "walking"
         THEN IF C19_InReach(charPos') = {}
              THEN nearby' = NoId
              ELSE \E i \in C19_InReach(charPos') :
                      /\ nearby' = vehicles[i].id
                      /\ \A j \in C19_InReach(charPos') :
                            C19_Dist2(charPos', vehicles[i])
                              <= C19_Dist2(charPos', vehicles[j])
         ELSE /\ nearby' = NoId
              /\ activeIdx' \in C19_InReach(charPos')
              /\ \A k \in 1..Len(remotePlayers') :
                    remotePlayers'[k].vehicleId # vehicles'[activeIdx'].id]_vars

\* the player walks with two cars in reach; car-red, the nearer one, is
\* occupied by a remote player, and the target is the other car
C33_TargetSkipsClaimed ==
    /\ mode = "walking"
    /\ frameLog.tick = "walking"
    /\ nearby # NoId
    /\ nearby # "car-red"
    /\ \E k \in 1..Len(remotePlayers) : remotePlayers[k].vehicleId = "car-red"
    /\ \E i \in 1..Len(vehicles) :
          /\ vehicles[i].id = "car-red"
          /\ C19_Dist2(charPos, vehicles[i]) < 600 * 600
          /\ \E j \in C19_InReach(charPos) :
                /\ vehicles[j].id = nearby
                /\ C19_Dist2(charPos, vehicles[i])
                     < C19_Dist2(charPos, vehicles[j])

\* the player has just entered a car other than car-red, because car-red
\* is occupied by a remote player
C19_EnteredUnclaimedCar ==
    /\ frameLog.tick = "walking"
    /\ mode = "driving"
    /\ activeIdx # NoVehicle
    /\ vehicles[activeIdx].id # "car-red"
    /\ \E k \in 1..Len(remotePlayers) : remotePlayers[k].vehicleId = "car-red"
    /\ race.active /\ race.lap = 0 /\ ~race.started

\* ------------------------------------------------------------ relay claim
\* Relay environment: this browser's player runs to car-red and presses E
\* beside it; its socket connects during the run.  A second browser starts,
\* connects, and its player, who stands beside its own copy of car-red, may
\* enter and leave it and report its state twice.  The server handles and
\* the sockets deliver every message at any time after it was sent.
MaxClockRelay == 450
BudgetRelay == 3
MaxPeerUpdates == 2

EnvRelay ==
    [budget |-> BudgetRelay,
     downs |-> {Press("KeyW", {0}), Press("ShiftLeft", {0}),
                Press("KeyE", {400})},
     ups |-> {},
     moves |-> {}, presses |-> {}, releases |-> {}, clicks |-> {},
     unlocks |-> {},
     remotes |-> {},
     unmountAt |-> {},
     connectAt |-> {300},
     names |-> [id \in SocketIds |-> {Str(<<id>>)}],
     peerAt |-> {300, 400},
     peerReach |-> {"car-red"},
     peerSpot |-> <<9000, 0, 9000>>,
     peerUpdates |-> MaxPeerUpdates,
     frames |-> FramesAt({50}, {Roadside}, 0..400)
           \cup FramesAt({50}, {TrackInfo(20, 300, 0)},
                         {c \in 450..MaxClockRelay : c % 50 = 0}),
     maxClock |-> MaxClockRelay]

NextRelay ==
    \/ Start
    \/ KeyDown(EnvRelay)
    \/ Frame(EnvRelay)
    \/ Connect(EnvRelay)
    \/ Receive
    \/ ServerJoin
    \/ ServerUpdate
    \/ PeerStart(EnvRelay)
    \/ PeerReceive
    \/ PeerInteract(EnvRelay)
    \/ PeerSync(EnvRelay)

SpecRelay == Init /\ [][NextRelay]_vars

\* both browsers are connected, the server has both in its Map, and each
\* lists the other among its remote players
C20_BothJoined ==
    /\ socket = "connected" /\ peer.socket = "connected"
    /\ PlayerAt(players, Me) # 0 /\ PlayerAt(players, Peer) # 0
    /\ \E i \in 1..Len(remotePlayers) : remotePlayers[i].id = Peer
    /\ \E i \in 1..Len(peer.remotePlayers) : peer.remotePlayers[i].id = Me

\* C20: while two browsers are connected through the relay and know of each
\* other, they are never both in a vehicle with the same vehicle id.
C20_OneOccupant ==
    C20_BothJoined =>
        ~( /\ mode # "walking" /\ activeIdx # NoVehicle
           /\ peer.mode # "walking"
           /\ vehicles[activeIdx].id = peer.vehicleId )

\* ------------------------------------------------------------ session claims
\* Session environment: the race of the Race environment with the relay
\* reachable; the socket connects at the start or while the car is driven,
\* and the server handles what the socket sends at any time.
MaxClockSession == 1400
BudgetSession == 3
SessionWindowEnd == 900

EnvSession ==
    [budget |-> BudgetSession,
     downs |-> {Press("KeyW", {0}), Press("ShiftLeft", {0}),
                Press("KeyE", {400})},
     ups |-> {},
     moves |-> {}, presses |-> {}, releases |-> {}, clicks |-> {},
     unlocks |-> {},
     unmountAt |-> {1000},
     connectAt |-> {0, 600},
     names |-> [id \in SocketIds |-> {Str(<<id>>)}],
     frames |-> FramesAt({50}, {Roadside}, 0..400)
           \cup FramesAt({50}, RaceTis, 450..SessionWindowEnd)
           \cup FramesAt({50}, {TrackInfo(450, 300, 0)},
                         (SessionWindowEnd + 1)..MaxClockSession),
     maxClock |-> MaxClockSession]

NextSession ==
    \/ Start
    \/ KeyDown(EnvSession)
    \/ Frame(EnvSession)
    \/ Unmount(EnvSession)
    \/ PlayAgain
    \/ Connect(EnvSession)
    \/ ServerJoin
    \/ ServerUpdate
    \/ ServerDisconnect
    \/ Receive

SpecSession == Init /\ [][NextSession]_vars

\* C21: in every state whose phase is not 'playing' the App holds no
\* connected socket.
C21_NoSocketOutsidePlay ==
    phase # "playing" => socket # "connected"

\* ------------------------------------------------------------ pointer lock
\* Lock environment: the race of the Race environment; the player may click
\* the canvas at the start, while driving, after the last lap and on the
\* finish screen, hold the fire button from 500 ms on, and lose the lock
\* with Esc at 600 ms.  The finish screen replaces the scene at 1000 ms,
\* when the last frame has been rendered.
MaxClockLock == 1000
BudgetLock == 6
LockWindowEnd == 900

EnvLock ==
    [budget |-> BudgetLock,
     downs |-> {Press("KeyW", {0}), Press("ShiftLeft", {0}),
                Press("KeyE", {400})},
     ups |-> {},
     moves |-> {},
     presses |-> {[button |-> 0, at |-> {500}]},
     releases |-> {},
     clicks |-> {[at |-> {0, 650, 950, 1000}]},
     unlocks |-> {[at |-> {600}]},
     unmountAt |-> {1000},
     frames |-> FramesAt({50}, {Roadside}, 0..400)
           \cup FramesAt({50}, RaceTis, 450..LockWindowEnd)
           \cup FramesAt({50}, {TrackInfo(450, 300, 0)},
                         (LockWindowEnd + 1)..MaxClockLock),
     maxClock |-> MaxClockLock]

NextLock ==
    \/ Start
    \/ KeyDown(EnvLock)
    \/ Click(EnvLock)
    \/ MouseDown(EnvLock)
    \/ LockLost(EnvLock)
    \/ Frame(EnvLock)
    \/ Unmount(EnvLock)

\* the steps of Frame(e), told by the clock: Frame is the only action that
\* advances it
FrameDue(e) ==
    /\ mounted
    /\ \E inp \in e.frames :
          /\ clock \in inp.at
          /\ clock + inp.delta <= e.maxClock
          /\ clock' = clock + inp.delta

\* requestAnimationFrame keeps rendering frames and React commits the
\* re-render it has scheduled
SpecLock ==
    /\ Init
    /\ [][NextLock]_vars
    /\ WF_clock(FrameDue(EnvLock))
    /\ WF_vars(Unmount(EnvLock))

\* C22: the pointer becomes locked only in a step that delivers an input
\* event while the rendered phase is 'playing'; once the phase is not
\* 'playing' a locked pointer is eventually released; and every step that
\* loses the lock leaves the fire input cleared.
C22_PointerLock ==
    /\ [][~pointerLocked /\ pointerLocked' =>
            /\ phaseRef = "playing"
            /\ nInputs' = nInputs + 1
            /\ UNCHANGED <<keys, interactPressed, accum>>]_vars
    /\ [][pointerLocked /\ ~pointerLocked' => ~accum'.fireDown]_vars
    /\ ((phase # "playing" /\ pointerLocked) ~> ~pointerLocked)

\* the finish screen is shown, the lock the player held with the fire
\* button down in the last frame is released and the fire input is cleared
C22_ReleasedOnFinish ==
    /\ phase = "finished"
    /\ ~mounted
    /\ ~pointerLocked
    /\ frameMouse.fireDown
    /\ ~accum.fireDown

\* ------------------------------------------------------------ roster claims
\* Roster environment: this browser starts, connects at once and renders
\* three frames on foot.  The peer, whose player typed a name of 21
\* characters, starts and connects, may enter car-red and leave it, report
\* its state once and close the page.  The server handles and the sockets
\* deliver every message at any time after it was sent.
MaxClockRoster == 150
MaxRosterUpdates == 1

EnvRoster ==
    [budget |-> 0,
     downs |-> {}, ups |-> {},
     moves |-> {}, presses |-> {}, releases |-> {}, clicks |-> {},
     unlocks |-> {},
     remotes |-> {},
     unmountAt |-> {},
     connectAt |-> {0},
     names |-> [id \in SocketIds |->
                  IF id = Peer THEN {Chars("y", MAX_NAME + 1)} ELSE {Ace}],
     peerAt |-> {0, 100},
     peerReach |-> {"car-red"},
     peerSpot |-> <<9000, 0, 9000>>,
     peerUpdates |-> MaxRosterUpdates,
     frames |-> FramesAt({50}, {Roadside}, 0..MaxClockRoster),
     maxClock |-> MaxClockRoster]

NextRoster ==
    \/ Start
    \/ Frame(EnvRoster)
    \/ Connect(EnvRoster)
    \/ Receive
    \/ ServerJoin
    \/ ServerUpdate
    \/ ServerDisconnect
    \/ PeerStart(EnvRoster)
    \/ PeerReceive
    \/ PeerInteract(EnvRoster)
    \/ PeerSync(EnvRoster)
    \/ PeerLeave(EnvRoster)

SpecRoster == Init /\ [][NextRoster]_vars

\* the server takes a message of the given type from socket id in this step
Handles(id, type) ==
    /\ wire.up[id] # << >>
    /\ Head(wire.up[id]).type = type
    /\ wire'.up[id] = Tail(wire.up[id])

\* what this step queues for socket j
QueuedFor(j) ==
    SubSeq(wire'.down[j], Len(wire.down[j]) + 1, Len(wire'.down[j]))

\* positions of the roster ps that hold session id
EntriesOf(ps, id) == {i \in 1..Len(ps) : ps[i].id = id}

\* C23: when the server handles a join, the roster afterwards holds the
\* joiner once, under the first 20 characters of its name; the joiner, if
\* still connected, is sent one 'players' list that holds every other
\* session of the roster once, as the roster held it, and not the joiner;
\* every other connected session is sent one 'playerJoined' with the
\* joiner's entry, and nothing else is sent.
C23_Join ==
    [][\A id \in SocketIds : Handles(id, "join") =>
         LET name == StringOf(Head(wire.up[id]).name)
         IN  /\ Cardinality(EntriesOf(players', id)) = 1
             /\ \A i \in EntriesOf(players', id) :
                   /\ Len(players'[i].name) = Min(Len(name), 20)
                   /\ \A k \in 1..Len(players'[i].name) :
                         players'[i].name[k] = name[k]
                   /\ players'[i].mode = "walking"
                   /\ players'[i].vehicleId = NoId
             /\ id \in Connected =>
                   /\ Len(QueuedFor(id)) = 1
                   /\ QueuedFor(id)[1].type = "players"
                   /\ EntriesOf(QueuedFor(id)[1].players, id) = {}
                   /\ \A j \in SocketIds \ {id} :
                         /\ Cardinality(EntriesOf(QueuedFor(id)[1].players, j))
                              = Cardinality(EntriesOf(players, j))
                         /\ \A i \in EntriesOf(QueuedFor(id)[1].players, j) :
                               \E k \in EntriesOf(players, j) :
                                  QueuedFor(id)[1].players[i] = players[k]
             /\ id \notin Connected => QueuedFor(id) = << >>
             /\ \A j \in SocketIds \ {id} :
                   IF j \in Connected
                   THEN /\ Len(QueuedFor(j)) = 1
                        /\ QueuedFor(j)[1].type = "playerJoined"
                        /\ \A i \in EntriesOf(players', id) :
                              QueuedFor(j)[1].player = players'[i]
                   ELSE QueuedFor(j) = << >>]_vars

\* both browsers have joined: the peer is in the roster under the first 20
\* of the 21 characters of its name, and its list holds this browser where
\* this browser last reported to be
C23_JoinedAfterReport ==
    /\ \E i \in EntriesOf(players, Peer) : Len(players[i].name) = MAX_NAME
    /\ EntriesOf(players, Me) # {}
    /\ Len(peer.remotePlayers) = 1
    /\ peer.remotePlayers[1].id = Me
    /\ peer.remotePlayers[1].position # <<0, 0, 0>>
    /\ peer.remotePlayers[1].position = hud.position

\* ------------------------------------------------------------ update claim
\* Raw environment: this browser starts, connects at once and renders three
\* frames on foot.  A raw session connects at 50 ms and sends up to three
\* messages, each a join whose name is the number 7, an update that carries
\* only position, rotation and speed, or an update with every field.
MaxClockRaw == 150
MaxRawMessages == 3

RawUpdate == [type |-> "update", position |-> <<100, 0, 200>>, rotation |-> 7,
              speed |-> 3]

EnvRaw ==
    [budget |-> 0,
     downs |-> {}, ups |-> {},
     moves |-> {}, presses |-> {}, releases |-> {}, clicks |-> {},
     unlocks |-> {},
     remotes |-> {},
     unmountAt |-> {},
     connectAt |-> {0},
     names |-> [id \in SocketIds |-> {Ace}],
     rawAt |-> {50},
     rawBudget |-> MaxRawMessages,
     rawMessages |-> {[type |-> "join", name |-> Num(7)],
                      RawUpdate,
                      RawUpdate @@ [mode |-> "flying",
                                    vehicleId |-> "plane-red", pitch |-> 5,
                                    bank |-> -3]},
     frames |-> FramesAt({50}, {Roadside}, 0..MaxClockRaw),
     maxClock |-> MaxClockRaw]

NextRaw ==
    \/ Start
    \/ Frame(EnvRaw)
    \/ Connect(EnvRaw)
    \/ Receive
    \/ ServerJoin
    \/ ServerUpdate
    \/ RawConnect(EnvRaw)
    \/ RawSend(EnvRaw)

SpecRaw == Init /\ [][NextRaw]_vars

\* the fields of an 'update' that the server gives a default
C24_Defaulted == {"mode", "vehicleId", "pitch", "bank"}

\* the value the claim gives field f of the relayed message for data
C24_Relayed(data, f) ==
    IF f \in DOMAIN data THEN data[f]
    ELSE IF f = "mode" THEN "walking"
    ELSE IF f = "vehicleId" THEN NoId
    ELSE 0

\* C24: when the server handles an 'update' of a session in its roster,
\* every other connected session is sent exactly one 'playerUpdate' with
\* the sender's id, the position, rotation and speed sent, and mode,
\* vehicleId, pitch and bank as sent or, when absent, 'walking', null, 0 and
\* 0; the sender is sent nothing; the sender's roster entry holds the same
\* values afterwards and the other entries are unchanged.
C24_Update ==
    [][\A id \in SocketIds :
         Handles(id, "update") /\ EntriesOf(players, id) # {} =>
           LET data == Head(wire.up[id])
           IN  /\ QueuedFor(id) = << >>
               /\ \A j \in SocketIds \ {id} :
                     IF j \in Connected
                     THEN /\ Len(QueuedFor(j)) = 1
                          /\ DOMAIN QueuedFor(j)[1] =
                               {"type", "id", "position", "rotation",
                                "speed"} \cup C24_Defaulted
                          /\ QueuedFor(j)[1].type = "playerUpdate"
                          /\ QueuedFor(j)[1].id = id
                          /\ \A f \in {"position", "rotation", "speed"}
                                        \cup C24_Defaulted :
                                QueuedFor(j)[1][f] = C24_Relayed(data, f)
                     ELSE QueuedFor(j) = << >>
               /\ Len(players') = Len(players)
               /\ \A i \in 1..Len(players) :
                     IF players[i].id = id
                     THEN /\ players'[i].id = id
                          /\ players'[i].name = players[i].name
                          /\ \A f \in {"position", "rotation", "speed"}
                                        \cup C24_Defaulted :
                                players'[i][f] = C24_Relayed(data, f)
                     ELSE players'[i] = players[i]]_vars

\* this browser lists the raw session with the position it sent and the
\* defaults for the fields it left out
C24_DefaultsReceived ==
    \E i \in 1..Len(remotePlayers) :
       /\ remotePlayers[i].id = Raw
       /\ remotePlayers[i].position = RawUpdate.position
       /\ remotePlayers[i].mode = "walking"
       /\ remotePlayers[i].vehicleId = NoId
       /\ remotePlayers[i].pitch = 0
       /\ \E k \in EntriesOf(players, Raw) :
             players[k].position = RawUpdate.position /\ players[k].bank = 0

\* ------------------------------------------------------------- leave claim
\* this browser handles a message of the given type
C25_Receives(type) ==
    /\ socket = "connected"
    /\ wire.down[Me] # << >>
    /\ Head(wire.down[Me]).type = type
    /\ wire'.down[Me] = Tail(wire.down[Me])

\* the ids of a list of players
C25_Ids(ps) == {ps[i].id : i \in 1..Len(ps)}

\* session id has closed its socket, the server has handled all it sent,
\* and this browser has no 'playerLeft' of id left to process
C25_LeftFor(id) ==
    /\ SocketOf(id) = "none"
    /\ wire.up[id] = << >>
    /\ \A k \in 1..Len(wire.down[Me]) :
          wire.down[Me][k].type = "playerLeft" => wire.down[Me][k].id # id

\* C25: when the server handles a disconnect, the roster afterwards has no
\* entry of that session and keeps the others, and every connected socket
\* is sent one 'playerLeft' with the session's id.  A browser that handles
\* 'playerLeft' has no entry with that id afterwards; a browser that
\* handles 'playerUpdate' lists the same sessions as before.  Once a
\* session has left and this browser has processed what it was sent about
\* it, the remote-player list has no entry with that id.
C25_Leave ==
    /\ [][\A id \in SocketIds :
            Handles(id, "disconnect") =>
              /\ players' = SelectSeq(players, LAMBDA q : q.id # id)
              /\ \A j \in SocketIds :
                    QueuedFor(j) = IF j \in Connected
                                   THEN <<[type |-> "playerLeft", id |-> id]>>
                                   ELSE << >>]_vars
    /\ [][C25_Receives("playerLeft") =>
            /\ EntriesOf(remotePlayers', Head(wire.down[Me]).id) = {}
            /\ remotePlayers' =
                 SelectSeq(remotePlayers,
                           LAMBDA q : q.id # Head(wire.down[Me]).id)]_vars
    /\ [][C25_Receives("playerUpdate") =>
            /\ Len(remotePlayers') = Len(remotePlayers)
            /\ C25_Ids(remotePlayers') = C25_Ids(remotePlayers)]_vars
    /\ [](\A id \in SocketIds \ {Me} :
            socket = "connected" /\ C25_LeftFor(id) =>
              EntriesOf(remotePlayers, id) = {})

\* the server has removed the peer and this browser, which lists the peer,
\* is about to handle the 'playerLeft'
C25_LeftPending ==
    /\ socket = "connected"
    /\ wire.down[Me] # << >>
    /\ Head(wire.down[Me]) = [type |-> "playerLeft", id |-> Peer]
    /\ EntriesOf(remotePlayers, Peer) # {}
    /\ EntriesOf(players, Peer) = {}
    /\ EntriesOf(players, Me) # {}

\* ---------------------------------------------------------- offline claim
\* Offline environment: the player starts and holds W on foot while the
\* browser renders a frame every 50 ms.  The relay accepts the connection
\* at 0 ms, 100 ms or 200 ms, is unreachable at 0 ms, 50 ms and 150 ms, and
\* drops the connection at 50 ms or 150 ms, at most twice.
MaxClockOffline == 300
MaxDrops == 2

EnvOffline ==
    [budget |-> 1,
     downs |-> {Press("KeyW", {0})}, ups |-> {},
     moves |-> {}, presses |-> {}, releases |-> {}, clicks |-> {},
     unlocks |-> {},
     remotes |-> {},
     unmountAt |-> {},
     connectAt |-> {0, 100, 200},
     errorAt |-> {0, 50, 150},
     dropAt |-> {50, 150},
     maxDrops |-> MaxDrops,
     names |-> [id \in SocketIds |-> {Ace}],
     frames |-> FramesAt({50}, {Roadside}, 0..MaxClockOffline),
     maxClock |-> MaxClockOffline]

NextOffline ==
    \/ Start
    \/ KeyDown(EnvOffline)
    \/ Frame(EnvOffline)
    \/ Connect(EnvOffline)
    \/ ConnectError(EnvOffline)
    \/ Drop(EnvOffline)
    \/ ServerJoin
    \/ ServerUpdate
    \/ ServerDisconnect
    \/ Receive

SpecOffline ==
    /\ Init
    /\ [][NextOffline]_vars
    /\ WF_clock(FrameDue(EnvOffline))

\* what this step appends to the messages of this browser's socket
C26_Emitted ==
    IF Len(wire'.up[Me]) > Len(wire.up[Me])
    THEN SubSeq(wire'.up[Me], Len(wire.up[Me]) + 1, Len(wire'.up[Me]))
    ELSE << >>

\* C26: when a connection attempt fails or the relay drops the connection,
\* mpStatus becomes 'offline', and it is 'online' only while the socket is
\* connected; the socket makes at most reconnectionAttempts attempts
\* without connecting, and none after its socket was given up; a step
\* taken while the socket is not connected emits no 'update'; and a frame
\* rendered while the socket is not connected puts nothing on the wire,
\* reports the controller's state when a report is due, and the frames
\* keep coming until the end of the run.
C26_Offline ==
    /\ [][socket # "none" /\ socket' # "connected" /\ socket' # socket =>
            mp'.status = "offline"]_vars
    /\ [](mp.status = "online" => socket = "connected")
    /\ [](mp.attempts <= reconnectionAttempts)
    /\ [][socket = "none" /\ socket' = "none" =>
            mp'.attempts = mp.attempts]_vars
    /\ [][socket # "connected" =>
            \A k \in 1..Len(C26_Emitted) : C26_Emitted[k].type # "update"]_vars
    /\ [][socket # "connected" /\ clock' # clock =>
            /\ wire' = wire
            /\ simTime' > simTime
            /\ frameLog'.sync =>
                 /\ hud'.position = <<charPos'.x, charPos'.y, charPos'.z>>
                 /\ hud'.mode = mode']_vars
    /\ ((mounted /\ mp.status = "offline") ~>
          (clock + 50 > MaxClockOffline))

\* the relay has dropped the connection and the attempt to reconnect has
\* failed; the player has walked on since and the report shows it
C26_WalkedOnOffline ==
    /\ mp.status = "offline"
    /\ mp.drops = 1
    /\ socket = "none"
    /\ clock = MaxClockOffline
    /\ hud.position # createInitialState.position
    /\ hud.position = <<charPos.x, charPos.y, charPos.z>>

\* -------------------------------------------------------------- gate claim
\* Gate environment: the player runs to car-red and enters it; for five
\* frames the car is found near the start or at mid-lap, on the road, off
\* the road within 1.2 track widths of the curve, or farther away;
\* afterwards it stays far from the curve.
MaxClockGate == 900
BudgetGate == 3
GateWindowEnd == 650
GateTis ==
    {TrackInfo(100, 300, 0), TrackInfo(100, 959, 0), TrackInfo(450, 960, 0),
     TrackInfo(450, 1919, 0), TrackInfo(600, 1920, 0),
     TrackInfo(600, 2500, 0)}

EnvGate ==
    [budget |-> BudgetGate,
     downs |-> {Press("KeyW", {0}), Press("ShiftLeft", {0}),
                Press("KeyE", {400})},
     ups |-> {},
     moves |-> {}, presses |-> {}, releases |-> {}, clicks |-> {},
     unlocks |-> {},
     unmountAt |-> {},
     frames |-> FramesAt({50}, {Roadside}, 0..400)
           \cup FramesAt({50}, GateTis, 450..GateWindowEnd)
           \cup FramesAt({50}, {TrackInfo(600, 2500, 0)},
                         (GateWindowEnd + 1)..MaxClockGate),
     maxClock |-> MaxClockGate]

NextGate ==
    \/ Start
    \/ KeyDown(EnvGate)
    \/ Frame(EnvGate)

SpecGate == Init /\ [][NextGate]_vars

\* a driving frame that changes the started flag, a checkpoint flag, the
\* lap count or the last-known curve parameter
C28_Tracked ==
    /\ clock' > clock
    /\ mode = "driving"
    /\ \/ race'.started # race.started
       \/ race'.checkpoints # race.checkpoints
       \/ race'.lap # race.lap
       \/ race'.lastT # race.lastT

\* C28 as stated: lap and checkpoint state is updated in a driving frame
\* only if the distance to the nearest curve sample is less than 1.2 times
\* half the track width.
C28_GateHalfWidth ==
    [][C28_Tracked =>
         10 * vehicles[activeIdx].ti.dist < 12 * (TRACK_WIDTH \div 2)]_vars

\* C28: lap and checkpoint state is updated in a driving frame only if the
\* distance to the nearest curve sample is less than 1.2 times the track
\* width.
C28_GateFullWidth ==
    [][C28_Tracked =>
         10 * vehicles[activeIdx].ti.dist < 12 * TRACK_WIDTH]_vars

\* lap tracking has run at mid-lap, where the car was never nearer to the
\* curve than 0.6 track widths: the first four flags are set
C28_TrackedOffRoad ==
    /\ mode = "driving"
    /\ race.started
    /\ race.lastT = 450
    /\ \A i \in 1..4 : race.checkpoints[i]

\* -------------------------------------------------------------- exit claim
\* Exit environment: the player runs to car-red and enters it, may jump at
\* 500 ms, and may press E at 550 ms, in the air or on the road, or at
\* 900 ms, after the race; the car is found at one of three places along
\* the lap, and the finish screen replaces the scene at 1000 ms.
MaxClockExit == 1100
BudgetExit == 5
ExitWindowEnd == 900

EnvExit ==
    [budget |-> BudgetExit,
     downs |-> {Press("KeyW", {0}), Press("ShiftLeft", {0}),
                Press("KeyE", {400, 550, 900}), Press("Space", {500})},
     ups |-> {},
     moves |-> {}, presses |-> {}, releases |-> {}, clicks |-> {},
     unlocks |-> {},
     unmountAt |-> {1000},
     frames |-> FramesAt({50}, {Roadside}, 0..400)
           \cup FramesAt({50}, RaceTis, 450..ExitWindowEnd)
           \cup FramesAt({50}, {TrackInfo(450, 300, 0)},
                         (ExitWindowEnd + 1)..MaxClockExit),
     maxClock |-> MaxClockExit]

NextExit ==
    \/ Start
    \/ KeyDown(EnvExit)
    \/ Frame(EnvExit)
    \/ Unmount(EnvExit)

SpecExit == Init /\ [][NextExit]_vars

\* C32: a frame that starts in driving mode with interact pressed ends with
\* mode walking, no vehicle active, the car's speed 0 and the session
\* inactive, whatever the car's speed, whether it is in the air and whether
\* the session is finished; the car keeps its position on the ground plane,
\* its heading and its track info, and the boost meter and the lap state
\* keep their values.
C32_ExitDriving ==
    [][( /\ clock' > clock
         /\ mode = "driving"
         /\ interactPressed ) =>
         /\ mode' = "walking"
         /\ activeIdx' = NoVehicle
         /\ frameLog'.tick = "exit"
         /\ frameLog'.laps = 0
         /\ vehicles'[activeIdx].speed = 0
         /\ vehicles'[activeIdx].x = vehicles[activeIdx].x
         /\ vehicles'[activeIdx].z = vehicles[activeIdx].z
         /\ vehicles'[activeIdx].rot = vehicles[activeIdx].rot
         /\ vehicles'[activeIdx].ti = vehicles[activeIdx].ti
         /\ boostMeter' = boostMeter
         /\ race' = [race EXCEPT !.active = FALSE]
         /\ carVelY' = 0
         /\ carOnGround']_vars

\* the player has left the car after the race was finished
C32_LeftFinishedCar ==
    /\ frameLog.tick = "exit"
    /\ race.finished
    /\ ~race.active
    /\ mode = "walking"
    /\ activeIdx = NoVehicle

\* ------------------------------------------------------------- shoot claim
\* Shoot environment: the player runs to plane-red, enters it at 1400 ms
\* with the fire button held and fires a bullet in every frame of 100 ms.
\* In the frames that start at 1650 ms or 1750 ms the first bullet may be
\* within the hit radius of targets 3 and 4 and the second one within that
\* of target 3, or of targets 3 and 4; in the frames from 1850 ms on the
\* third and fourth bullets may be within that of target 3.
MaxClockShoot == 2150
BudgetShoot == 5
ShootClocks == {1450 + 100 * i : i \in 0..6}

ShootFrames ==
    LET f == [delta |-> 100, tiNew |-> AirTi, tiHit |-> AirTi,
              tiExit |-> AirTi, low |-> {}, near |-> NoNear,
              at |-> ShootClocks]
    IN  {f,
         [f EXCEPT !.near = [NoNear EXCEPT ![1] = {3, 4}, ![2] = {3}],
                   !.at = {1650, 1750}],
         [f EXCEPT !.near = [NoNear EXCEPT ![1] = {4}, ![2] = {3, 4}],
                   !.at = {1650, 1750}],
         [f EXCEPT !.near = [NoNear EXCEPT ![3] = {3}, ![4] = {3}],
                   !.at = {1850, 1950}]}

EnvShoot ==
    [budget |-> BudgetShoot,
     downs |-> {Press("KeyW", {0}), Press("ShiftLeft", {0}),
                Press("KeyE", {1400})},
     ups |-> {},
     moves |-> {},
     presses |-> {[button |-> 0, at |-> {1400}]},
     releases |-> {},
     clicks |-> {[at |-> {0}]},
     unlocks |-> {},
     unmountAt |-> {},
     frames |-> FramesAt({50}, {Roadside}, 0..1400) \cup ShootFrames,
     maxClock |-> MaxClockShoot]

NextShoot ==
    \/ Start
    \/ KeyDown(EnvShoot)
    \/ Click(EnvShoot)
    \/ MouseDown(EnvShoot)
    \/ Frame(EnvShoot)

SpecShoot == Init /\ [][NextShoot]_vars

\* the targets bullet i has hit and the bullets that have hit target t in
\* the frame the step renders
C34_HitBy(i) == {h[2] : h \in {g \in frameLog'.hits : g[1] = i}}
C34_Hitting(t) == {h[1] : h \in {g \in frameLog'.hits : g[2] = t}}

\* C34: in one frame a bullet hits at most one target and a target is hit
\* by at most one bullet; the target hit was alive before the frame and is
\* dead after it, with the 3 s countdown less the frame's time, and the
\* bullet is inactive; a target turns dead only by a hit; a target that is
\* dead before the frame is not hit, and its countdown only runs down.
C34_OneHit ==
    [][clock' > clock =>
         /\ \A i \in 1..MAX_BULLETS : Cardinality(C34_HitBy(i)) <= 1
         /\ \A t \in 1..NUM_TARGETS :
               /\ Cardinality(C34_Hitting(t)) <= 1
               /\ C34_Hitting(t) # {} =>
                     /\ targets[t].alive
                     /\ ~targets'[t].alive
                     /\ targets'[t].respawnTimer
                          = TARGET_RESPAWN_TIME - frameLog'.dt
                     /\ \A i \in C34_Hitting(t) : ~bullets'[i].active
               /\ targets[t].alive /\ ~targets'[t].alive =>
                     C34_Hitting(t) # {}
               /\ ~targets[t].alive =>
                     /\ C34_Hitting(t) = {}
                     /\ targets'[t].respawnTimer
                          = targets[t].respawnTimer - frameLog'.dt]_vars

\* one frame in which the first bullet, with targets 3 and 4 in reach, has
\* hit target 3 and the second, with target 3 in reach, has hit nothing
C34_FirstBulletWins ==
    /\ frameLog.hits = {<<1, 3>>}
    /\ ~targets[3].alive
    /\ targets[4].alive
    /\ ~bullets[1].active
    /\ bullets[2].active

\* ---------------------------------------------------------- lifetime claim
\* the flight environment with the browser's frame callback kept running:
\* a frame that is due is rendered
SpecFlyOn ==
    /\ Init
    /\ [][NextFly]_vars
    /\ WF_clock(FrameDue(EnvFly))

\* the run has a frame left to render
C35_FrameLeft ==
    /\ mounted
    /\ \E inp \in EnvFly.frames :
          clock \in inp.at /\ clock + inp.delta <= EnvFly.maxClock

\* C35: no bullet is active with an age above 2.5 s; a frame that runs
\* tickBullets adds its dt to the age of every bullet that stays active,
\* whatever the mode; every active bullet is inactive again later, unless
\* the frames end first; and a shot takes the first inactive slot.
C35_BulletsExpire ==
    /\ [](\A i \in 1..MAX_BULLETS :
            bullets[i].active => bullets[i].age <= BULLET_LIFETIME)
    /\ [][clock' > clock /\ frameLog'.fault = "none" =>
            \A i \in 1..MAX_BULLETS :
               bullets[i].active /\ bullets'[i].active =>
                  /\ frameLog'.dt > 0
                  /\ bullets'[i].age = bullets[i].age + frameLog'.dt]_vars
    /\ [][\A i \in 1..MAX_BULLETS :
            ~bullets[i].active /\ bullets'[i].active =>
               \A j \in 1..(i - 1) : bullets[j].active]_vars
    /\ \A i \in {1, 2, MAX_BULLETS} :
          bullets[i].active ~> (~bullets[i].active \/ ~C35_FrameLeft)

\* the first slot, whose bullet has timed out, holds a new bullet
C35_SlotReused ==
    /\ bullets[1].active
    /\ bullets[1].age <= 100
    /\ simTime > BULLET_LIFETIME + 100
    /\ frameLog.fire = "spawned"

\* ------------------------------------------------------------- sync claim
\* Sync environment: the player walks forward while the browser renders
\* frames 16 ms, 34 ms, 50 ms or 100 ms apart in any order; the relay
\* accepts the connection at 0 ms or 50 ms.
MaxClockSync == 250

EnvSync ==
    [budget |-> 1,
     downs |-> {Press("KeyW", {0})}, ups |-> {},
     moves |-> {}, presses |-> {}, releases |-> {}, clicks |-> {},
     unlocks |-> {},
     remotes |-> {},
     unmountAt |-> {},
     connectAt |-> {0, 50},
     names |-> [id \in SocketIds |-> {Ace}],
     frames |-> FramesAt({16, 34, 50, 100}, {Roadside}, 0..MaxClockSync),
     maxClock |-> MaxClockSync]

NextSync ==
    \/ Start
    \/ KeyDown(EnvSync)
    \/ Frame(EnvSync)
    \/ Connect(EnvSync)
    \/ ServerJoin
    \/ ServerUpdate
    \/ Receive

SpecSync == Init /\ [][NextSync]_vars

\* the 'update' messages this step appends to this browser's socket
C37_Updates ==
    IF Len(wire'.up[Me]) > Len(wire.up[Me])
    THEN SelectSeq(SubSeq(wire'.up[Me], Len(wire.up[Me]) + 1,
                          Len(wire'.up[Me])),
                   LAMBDA msg : msg.type = "update")
    ELSE << >>

\* C37: a frame's dt is min(delta, 0.05) and the walker moves no further
\* than its run speed allows in that dt; a frame emits a snapshot exactly
\* when the dt accumulated since the last emission exceeds 0.066 s, and
\* then restarts the accumulation, so the frame before it emitted none;
\* the HUD state changes and an 'update' is sent only in such a frame, one
\* 'update' carrying the new HUD state when the socket is connected.
C37_Throttled ==
    /\ [][clock' > clock =>
            /\ frameLog'.dt = Min(clock' - clock, MAX_DT)
            /\ (charPos'.x - charPos.x) * (charPos'.x - charPos.x)
                 + (charPos'.z - charPos.z) * (charPos'.z - charPos.z)
                 <= (Scale(WALK.runSpeed, MAX_DT, 1000) + 2)
                      * (Scale(WALK.runSpeed, MAX_DT, 1000) + 2)
            /\ frameLog'.sync <=> syncTimer + frameLog'.dt > SYNC_PERIOD
            /\ frameLog'.sync => syncTimer' = 0 /\ ~frameLog.sync
            /\ ~frameLog'.sync =>
                  /\ syncTimer' = syncTimer + frameLog'.dt
                  /\ hud' = hud
            /\ C37_Updates =
                  IF frameLog'.sync /\ socket = "connected"
                  THEN <<Update(hud')>> ELSE << >>]_vars
    /\ [][clock' = clock /\ mounted => hud' = hud /\ C37_Updates = << >>]_vars

\* a snapshot went out after five short frames
C37_EmittedAfterShortFrames ==
    /\ frameLog.sync
    /\ frameLog.dt = 16
    /\ socket = "connected"
    /\ wire.up[Me] # << >>
    /\ wire.up[Me][Len(wire.up[Me])] = Update(hud)

\* ------------------------------------------------------- transition claim
\* Keys environment: the player runs past the cars to plane-red and may
\* press E beside car-red, while driving it and beside the plane; while E
\* is held the keyboard delivers key-repeat events of E, one or two frames
\* after a press.
MaxClockKeys == 1700
BudgetKeys == 7

Held(code, at) == [code |-> code, repeat |-> TRUE, at |-> at]

EnvKeys ==
    [budget |-> BudgetKeys,
     downs |-> {Press("KeyW", {0}), Press("ShiftLeft", {0}),
                Press("KeyE", {400, 700, 1400, 1550}),
                Held("KeyE", {450, 500, 1450, 1500})},
     ups |-> {},
     moves |-> {}, presses |-> {}, releases |-> {}, clicks |-> {},
     unlocks |-> {},
     remotes |-> {},
     unmountAt |-> {},
     frames |-> FramesAt({50}, {Roadside}, 0..400)
           \cup FramesAt({50}, {TrackInfo(100, 300, 0)}, 450..650)
           \cup FramesAt({50}, {Roadside}, 700..MaxClockKeys),
     maxClock |-> MaxClockKeys]

NextKeys ==
    \/ Start
    \/ KeyDown(EnvKeys)
    \/ Frame(EnvKeys)

SpecKeys == Init /\ [][NextKeys]_vars

\* a keydown of E that is not a key repeat can be delivered now
C38_PressDue ==
    \E ev \in EnvKeys.downs :
       ev.code = "KeyE" /\ ~ev.repeat /\ clock \in ev.at

\* C38: the interact flag is raised only by a keydown of E that is not a
\* key repeat and is lowered by the next frame, whatever the mode; a frame
\* runs the one tick of the mode it began in; the mode changes only in a
\* frame that found the flag raised, from walking to driving or flying in
\* the walking tick or from driving or flying to walking by an exit.
C38_OneTransition ==
    /\ [][~interactPressed /\ interactPressed' =>
            clock' = clock /\ C38_PressDue]_vars
    /\ [][clock' > clock =>
            /\ ~interactPressed'
            /\ mode = "walking" => frameLog'.tick = "walking"
            /\ mode = "driving" =>
                  frameLog'.tick \in {"driving", "exit", "finished"}
            /\ mode = "flying" => frameLog'.tick \in {"flying", "exit"}
            /\ frameLog'.tick = "exit" => interactPressed]_vars
    /\ [][mounted /\ mode' # mode =>
            /\ clock' > clock
            /\ interactPressed
            /\ \/ mode = "walking" /\ frameLog'.tick = "walking"
               \/ mode' = "walking" /\ frameLog'.tick = "exit"]_vars

\* the player has left the plane on the ground
C38_LeftPlaneOnGround ==
    /\ mode = "walking"
    /\ frameLog.tick = "exit"
    /\ clock > 1500
    /\ ~interactPressed

\* ------------------------------------------------------------- park claim
\* Park environment: the player runs to car-red, enters it and backs it
\* out of the row of parked vehicles for two seconds; the car is found
\* just past the start line at first and, from 2400 ms on, either still
\* there or 30 % of the way round the lap, on the road or far off it.  The
\* player lets go of the brake, leaves the car with E and enters it again.
MaxClockPark == 2700
BudgetPark == 8
ParkWindowStart == 2400

ParkTis == {TrackInfo(80, 300, 0), TrackInfo(300, 300, 0),
            TrackInfo(300, 2000, 0)}

EnvPark ==
    [budget |-> BudgetPark,
     downs |-> {Press("KeyW", {0}), Press("ShiftLeft", {0}),
                Press("KeyE", {400, 2500, 2550}), Press("KeyS", {450})},
     ups |-> {Release("KeyW", {400}), Release("KeyS", {2500})},
     moves |-> {}, presses |-> {}, releases |-> {}, clicks |-> {},
     unlocks |-> {},
     unmountAt |-> {},
     frames |-> FramesAt({50}, {Roadside}, 0..400)
           \cup FramesAt({50}, {TrackInfo(80, 300, 0)},
                         450..(ParkWindowStart - 1))
           \cup FramesAt({50}, ParkTis, ParkWindowStart..MaxClockPark),
     maxClock |-> MaxClockPark]

NextPark ==
    \/ Start
    \/ KeyDown(EnvPark)
    \/ KeyUp(EnvPark)
    \/ Frame(EnvPark)

SpecPark == Init /\ [][NextPark]_vars

\* C39: a driving frame in which the car stands still (speed 0 before and
\* after, no throttle or brake, same position and same nearest curve
\* sample) and which begins with every checkpoint flag false ends with
\* every checkpoint flag false.
C39_ParkedMarksNothing ==
    [][( /\ clock' > clock
         /\ mode = "driving" /\ mode' = "driving"
         /\ ~keys.forward /\ ~keys.backward
         /\ vehicles[activeIdx].speed = 0
         /\ vehicles'[activeIdx].speed = 0
         /\ vehicles'[activeIdx].x = vehicles[activeIdx].x
         /\ vehicles'[activeIdx].z = vehicles[activeIdx].z
         /\ vehicles'[activeIdx].ti = vehicles[activeIdx].ti
         /\ \A i \in DOMAIN race.checkpoints : ~race.checkpoints[i] )
       => \A i \in DOMAIN race'.checkpoints : ~race'.checkpoints[i]]_vars

\* ----------------------------------------------------------- finish claim
\* Finish environment: the race environment with one other player, on
\* foot, listed by the relay at 750 ms and standing beside the line between
\* car-red and car-orange.
MaxClockFinish == 1100

EnvFinish ==
    [budget |-> BudgetRace + 1,
     downs |-> {Press("KeyW", {0}), Press("ShiftLeft", {0}),
                Press("KeyE", {400})},
     ups |-> {},
     moves |-> {}, presses |-> {}, releases |-> {}, clicks |-> {},
     unlocks |-> {},
     remotes |-> {[players |-> <<RemotePlayer("p2", x, z, "walking", NoId)>>,
                   at |-> {750}] : x \in CollideXs, z \in CollideZs},
     unmountAt |-> {1000},
     frames |-> FramesAt({50}, {Roadside}, 0..400)
           \cup FramesAt({50}, RaceTis, 450..RaceWindowEnd)
           \cup FramesAt({50}, {TrackInfo(450, 300, 0)},
                         (RaceWindowEnd + 1)..MaxClockFinish),
     maxClock |-> MaxClockFinish]

NextFinish ==
    \/ Start
    \/ KeyDown(EnvFinish)
    \/ Players(EnvFinish)
    \/ Frame(EnvFinish)
    \/ Unmount(EnvFinish)

SpecFinish == Init /\ [][NextFinish]_vars

\* position, heading and speed of a vehicle
C40_Pose(v) == <<v.x, v.y, v.z, v.rot, v.speed>>

WithId(id) == {i \in 1..Len(vehicles) : vehicles[i].id = id}

TypeOfMode(m) == IF m = "driving" THEN "car" ELSE "airplane"

\* C3 (amended): at the end of every frame activeIdx is non-null if and
\* only if the mode is not walking, it names one vehicle of the roster, and
\* that vehicle is a car when driving and an airplane when flying; every
\* reported state has a vehicleId if and only if its reported mode is not
\* walking, the id of exactly one vehicle, of the type of the reported mode.
C3_ActiveIffNotWalking ==
    /\ activeIdx # NoVehicle <=> mode # "walking"
    /\ activeIdx # NoVehicle =>
          /\ activeIdx \in 1..Len(vehicles)
          /\ vehicles[activeIdx].type = TypeOfMode(mode)
    /\ hud.vehicleId # NoId <=> hud.mode # "walking"
    /\ hud.vehicleId # NoId =>
          /\ Cardinality(WithId(hud.vehicleId)) = 1
          /\ \A i \in WithId(hud.vehicleId) :
                vehicles[i].type = TypeOfMode(hud.mode)

\* C3 as stated: the reported vehicleId is non-null exactly when the mode
\* is not walking, at the end of every frame
C3_ReportedEveryFrame ==
    /\ activeIdx # NoVehicle <=> mode # "walking"
    /\ hud.vehicleId # NoId <=> mode # "walking"

\* the plane is flown and reported
C3_PlaneReported ==
    /\ mode = "flying"
    /\ activeIdx # NoVehicle
    /\ vehicles[activeIdx].id = "plane-red"
    /\ hud.mode = "flying"
    /\ hud.vehicleId = "plane-red"
    /\ frameLog.tick = "flying"

\* C4: no step of a frame dereferences the active vehicle while no vehicle
\* is active.
C4_NoNullDereference == frameLog.fault = "none"

\* C6: at the end of every flying frame the speed of the plane is in
\* [0, 120], and the speed reported in flying mode is not negative.
C6_PlaneSpeedRange ==
    /\ mode = "flying" =>
          /\ vehicles[activeIdx].speed >= 0
          /\ vehicles[activeIdx].speed <= FLY.maxSpeed
    /\ hud.mode = "flying" => hud.speed >= 0

\* ------------------------------------------------------------ weapon claims
ActiveBullets == {i \in 1..Len(bullets) : bullets[i].active}

\* a frame whose weapon block calls fireBullet: the mode read at the start
\* of the frame is flying, the fire button is down in the frame's mouse
\* snapshot and the cooldown has passed at the time of the frame
C9_FireAttempt ==
    /\ clock' > clock
    /\ mode = "flying"
    /\ accum.fireDown
    /\ clock' - lastFireTime >= FIRE_COOLDOWN

\* C9: the pool holds 30 bullets and never more, so at most 30 are active;
\* a fire attempt in a frame that starts with all 30 active raises no error
\* and spawns nothing: the alternation flag keeps its value, the muzzle
\* timer only runs down by the frame time, and every bullet still active
\* after the frame is the same bullet, one frame older.
C9_PoolBound ==
    [][/\ Len(bullets') = MAX_BULLETS
       /\ Cardinality({i \in 1..Len(bullets') : bullets'[i].active})
             <= MAX_BULLETS
       /\ (C9_FireAttempt /\ Cardinality(ActiveBullets) = MAX_BULLETS) =>
            /\ frameLog'.fault = "none"
            /\ fireLeft' = fireLeft
            /\ muzzleTimer' = IF muzzleTimer > 0
                              THEN muzzleTimer - frameLog'.dt
                              ELSE muzzleTimer
            /\ \A i \in 1..MAX_BULLETS :
                  bullets'[i].active =>
                     bullets'[i].age = bullets[i].age + frameLog'.dt]_vars

\* a shot has just been dropped with the pool full
C9_ShotDropped ==
    /\ frameLog.fire = "dropped"
    /\ Cardinality(ActiveBullets) = MAX_BULLETS
    /\ mode = "flying"

\* a frame that spawns a bullet: fireBullet took a slot of the pool, or a
\* slot that was free holds a bullet after the frame
C27_Spawns ==
    /\ clock' > clock
    /\ \/ frameLog'.fire = "spawned"
       \/ \E i \in 1..MAX_BULLETS : ~bullets[i].active /\ bullets'[i].active

\* C27: a frame spawns a bullet only if, when its weapon block runs, the
\* mode is flying, the active vehicle is an airplane and the fire button
\* is down in the mouse state the frame reads; the mode is still flying
\* and the plane still active at the end of that frame.
C27_SpawnOnlyFlying ==
    [][C27_Spawns =>
         /\ frameLog'.fireMode = "flying"
         /\ frameMouse'.fireDown
         /\ mode' = "flying"
         /\ activeIdx' # NoVehicle
         /\ vehicles'[activeIdx'].type = "airplane"]_vars

\* a bullet has just been spawned from the plane
C27_Spawned ==
    /\ frameLog.fire = "spawned"
    /\ ActiveBullets # {}
    /\ mode = "flying"
    /\ frameMouse.fireDown

\* C31: the mode changes from flying to walking only in a frame in which
\* interact was pressed and the plane is at most 1 above groundY; that frame
\* leaves no vehicle active, the plane with speed 0 and pitch 0, and the
\* angular velocities 0.  A frame with interact pressed and the plane
\* higher keeps the mode and the active vehicle and flies the plane as a
\* frame without the press does: the angular velocities and the pitch
\* follow the mouse and, when nothing is hit, the speed the throttle.
C31_ExitNearGround ==
    /\ [][mode = "flying" /\ mode' = "walking" =>
            /\ clock' > clock
            /\ interactPressed
            /\ vehicles[activeIdx].y <= FLY.groundY + 100
            /\ activeIdx' = NoVehicle
            /\ vehicles'[activeIdx].speed = 0
            /\ vehicles'[activeIdx].pitch = 0
            /\ flyYawVel' = 0
            /\ flyPitchVel' = 0]_vars
    /\ [][( /\ clock' > clock
            /\ mode = "flying"
            /\ interactPressed
            /\ vehicles[activeIdx].y > FLY.groundY + 100 ) =>
            /\ mode' = "flying"
            /\ activeIdx' = activeIdx
            /\ frameLog'.tick = "flying"
            /\ flyYawVel' = Scale(flyYawVel - 2 * accum.dx,
                                  1000 - 5 * frameLog'.dt, 1000)
            /\ flyPitchVel' = Scale(flyPitchVel + Scale(accum.dy, 3, 2),
                                    1000 - 4 * frameLog'.dt, 1000)
            /\ vehicles'[activeIdx].pitch =
                  FlyPitch(vehicles[activeIdx].pitch, flyPitchVel',
                           frameLog'.dt)
            /\ frameLog'.overlapped = {} =>
                  vehicles'[activeIdx].speed =
                    FlySpeed(vehicles[activeIdx].speed, keys, frameLog'.dt)]_vars

\* the player has just left the plane on the ground
C31_LeftPlane ==
    /\ frameLog.tick = "exit"
    /\ mode = "walking"
    /\ activeIdx = NoVehicle
    /\ \E i \in 1..Len(vehicles) :
          /\ vehicles[i].type = "airplane"
          /\ vehicles[i].speed = 0
          /\ vehicles[i].pitch = 0
          /\ hud.vehicleId = vehicles[i].id \/ frameLog.fault # "none"

\* C10: a target hit at simulated time T is dead at the end of every frame
\* that ends before T + 3 s and alive at the end of every frame from
\* T + 3 s on.
C10_RespawnAfter3s ==
    \A i \in 1..NUM_TARGETS :
        hitAt[i] # NoTime =>
            (targets[i].alive <=> simTime >= hitAt[i] + TARGET_RESPAWN_TIME)

====
